---- MODULE Spec2Model ----
(***************************************************************************)
(* A model of the AgentPM Node SDK (agentpm-dev/sdk-node): the tool        *)
(* locator, the interpreter resolver/validator, the process executor       *)
(* (spawnOnce) and the output extractor, as found in the latest revision   *)
(* of the SDK source (src/unnamed/part_001, lines 529-1102).               *)
(***************************************************************************)
EXTENDS Integers, Sequences, FiniteSets, TLC

(***************************************************************************)
(* Captured stream text.  A text is a sequence of runs [c, n]: character c *)
(* repeated n times.  Only the filler characters "x" (one byte in UTF-8)   *)
(* and "E2" (a two-byte character such as U+00E9) ever form runs longer    *)
(* than one, which lets a 10 MiB stream be a single element.               *)
(***************************************************************************)
Fillers == {"x", "E2"}

Run(ch, k) == [c |-> ch, n |-> k]

\* The one element of a singleton set.  { e(v) : v \in {x} } evaluates x
\* once and binds v to its value, which keeps the recursive operators below
\* from re-evaluating an argument at each of its uses.
Only(S) == CHOOSE r \in S : TRUE

\* The text of a sequence of single characters.
Txt(s) == [k \in 1..Len(s) |-> Run(s[k], 1)]

CatValues(a, b) ==
  IF a = <<>> THEN b
  ELSE IF b = <<>> THEN a
  ELSE IF a[Len(a)].c = b[1].c /\ b[1].c \in Fillers
       THEN SubSeq(a, 1, Len(a) - 1)
              \o <<Run(b[1].c, a[Len(a)].n + b[1].n)>>
              \o SubSeq(b, 2, Len(b))
       ELSE a \o b

\* Concatenation (JavaScript's string +), keeping runs of a filler merged.
Cat(a, b) == Only({CatValues(x, y) : x \in {a}, y \in {b}})

\* String.prototype.length: the number of characters.
RECURSIVE TLen(_)
TLen(t) == IF t = <<>> THEN 0 ELSE t[1].n + TLen(Tail(t))

\* UTF-8 width of a character.
Width(ch) == IF ch = "E2" THEN 2 ELSE 1

\* Buffer.byteLength(s): the UTF-8 byte length of a text.
RECURSIVE byteLength(_)
byteLength(t) ==
  IF t = <<>> THEN 0 ELSE t[1].n * Width(t[1].c) + byteLength(Tail(t))

\* The number of characters in elements j..Len(t).
RECURSIVE SuffixLen(_, _)
SuffixLen(t, j) == IF j > Len(t) THEN 0 ELSE t[j].n + SuffixLen(t, j + 1)

\* s.slice(-k): the last k characters (the whole text when it is shorter).
sliceLast(t, k) ==
  IF k <= 0 THEN <<>>
  ELSE IF TLen(t) <= k THEN t
  ELSE LET j == CHOOSE m \in 1..Len(t) :
                  SuffixLen(t, m) >= k /\ SuffixLen(t, m + 1) < k
       IN <<Run(t[j].c, k - SuffixLen(t, j + 1))>> \o SubSeq(t, j + 1, Len(t))

\* The first k characters of a text.
RECURSIVE TPrefix(_, _)
TPrefix(t, k) ==
  IF k <= 0 \/ t = <<>> THEN <<>>
  ELSE IF t[1].n >= k THEN <<Run(t[1].c, k)>>
       ELSE Cat(<<t[1]>>, TPrefix(Tail(t), k - t[1].n))

\* txt.lastIndexOf(ch) as an element index; 0 when ch does not occur.
RECURSIVE lastIndexOf(_, _, _)
lastIndexOf(t, ch, i) ==
  IF i = 0 THEN 0
  ELSE IF t[i].c = ch THEN i ELSE lastIndexOf(t, ch, i - 1)

\* txt.slice(idx) for an element index idx whose character is the last of
\* its run.
sliceFrom(t, idx) == <<Run(t[idx].c, 1)>> \o SubSeq(t, idx + 1, Len(t))

(***************************************************************************)
(* JSON values, JSON.stringify and JSON.parse.  Quote and backslash are    *)
(* the escapes modelled; the texts used hold no other character that       *)
(* JSON.stringify escapes, and numbers are unsigned integers.              *)
(***************************************************************************)
QT == "\""
BSL == "\\"

JNull == [t |-> "null"]
JTrue == [t |-> "true"]
JNum(d) == [t |-> "num", d |-> d]
JStr(s) == [t |-> "str", s |-> s]
JArr(e) == [t |-> "arr", e |-> e]
JObj(m) == [t |-> "obj", m |-> m]
Member(k, v) == [k |-> k, v |-> v]

\* The characters of a string literal's body, with quote and backslash
\* escaped.
RECURSIVE Escape(_)
Escape(s) ==
  IF s = <<>> THEN <<>>
  ELSE IF s[1].c \in {QT, BSL}
       THEN <<Run(BSL, 1), Run(s[1].c, 1)>> \o Escape(Tail(s))
       ELSE Cat(<<s[1]>>, Escape(Tail(s)))

Quoted(s) == Txt(<<QT>>) \o Escape(s) \o Txt(<<QT>>)

RECURSIVE stringify(_)
RECURSIVE StringifyElems(_)
RECURSIVE StringifyMembers(_)
stringify(v) ==
  CASE v.t = "null" -> Txt(<<"n", "u", "l", "l">>)
    [] v.t = "true" -> Txt(<<"t", "r", "u", "e">>)
    [] v.t = "num" -> Txt(v.d)
    [] v.t = "str" -> Quoted(v.s)
    [] v.t = "arr" -> Txt(<<"[">>) \o StringifyElems(v.e) \o Txt(<<"]">>)
    [] v.t = "obj" -> Txt(<<"{">>) \o StringifyMembers(v.m) \o Txt(<<"}">>)

StringifyElems(e) ==
  IF e = <<>> THEN <<>>
  ELSE stringify(e[1])
         \o (IF Len(e) > 1 THEN Txt(<<",">>) \o StringifyElems(Tail(e)) ELSE <<>>)

StringifyMembers(m) ==
  IF m = <<>> THEN <<>>
  ELSE Quoted(m[1].k) \o Txt(<<":">>) \o stringify(m[1].v)
         \o (IF Len(m) > 1 THEN Txt(<<",">>) \o StringifyMembers(Tail(m)) ELSE <<>>)

\* --- JSON.parse: a recursive-descent parser over a text ---
ParseFail == [ok |-> FALSE, v |-> JNull, i |-> 0]
ParseOk(v, i) == [ok |-> TRUE, v |-> v, i |-> i]

IsWs(ch) == ch \in {" ", "\n", "\t", "\r"}
IsDigit(ch) == ch \in {"0", "1", "2", "3", "4", "5", "6", "7", "8", "9"}

\* The character at element i, or "" past the end.  A run longer than one
\* is a filler, which is no JSON token outside a string literal.
At(t, i) == IF i >= 1 /\ i <= Len(t) THEN t[i].c ELSE ""

RECURSIVE SkipWs(_, _)
SkipWs(t, i) == IF IsWs(At(t, i)) THEN SkipWs(t, i + 1) ELSE i

\* The element index of the quote closing the string literal whose body
\* starts at element i; 0 when the literal is not closed or holds a raw
\* control character or an escape other than \" and \\.
RECURSIVE StringEnd(_, _)
StringEnd(t, i) ==
  IF i > Len(t) THEN 0
  ELSE IF t[i].c = QT THEN i
  ELSE IF t[i].c = BSL
       THEN IF At(t, i + 1) \in {QT, BSL} THEN StringEnd(t, i + 2) ELSE 0
  ELSE IF IsWs(t[i].c) /\ t[i].c # " " THEN 0
  ELSE StringEnd(t, i + 1)

\* The characters a string literal's body denotes.
RECURSIVE Unescape(_)
Unescape(s) ==
  IF s = <<>> THEN <<>>
  ELSE IF s[1].c = BSL THEN Cat(<<s[2]>>, Unescape(Tail(Tail(s))))
  ELSE Cat(<<s[1]>>, Unescape(Tail(s)))

\* The string literal whose body starts at element i.
ScanString(t, i) ==
  Only({ IF e = 0 THEN ParseFail
         ELSE ParseOk(JStr(Unescape(SubSeq(t, i, e - 1))), e + 1)
       : e \in {StringEnd(t, i)} })

RECURSIVE ScanDigits(_, _)
ScanDigits(t, i) == IF IsDigit(At(t, i)) THEN ScanDigits(t, i + 1) ELSE i

ParseNumber(t, i) ==
  Only({ IF j = i \/ (t[i].c = "0" /\ j > i + 1) THEN ParseFail
         ELSE ParseOk(JNum([k \in 1..(j - i) |-> t[i + k - 1].c]), j)
       : j \in {ScanDigits(t, i)} })

ParseLiteral(t, i, word, v) ==
  IF i + Len(word) - 1 <= Len(t)
       /\ \A k \in 1..Len(word) : t[i + k - 1] = Run(word[k], 1)
  THEN ParseOk(v, i + Len(word))
  ELSE ParseFail

\* A later member with the same key replaces the earlier value.
AddMember(m, k, v) ==
  IF \E j \in 1..Len(m) : m[j].k = k
  THEN [j \in 1..Len(m) |-> IF m[j].k = k THEN Member(k, v) ELSE m[j]]
  ELSE Append(m, Member(k, v))

RECURSIVE ParseValue(_, _)
RECURSIVE ParseMembers(_, _, _)
RECURSIVE ParseElems(_, _, _)
\* The value starting at the first non-blank element from i.
ValueAt(t, i) ==
  CASE At(t, i) = "{" ->
         Only({ IF At(t, j) = "}" THEN ParseOk(JObj(<<>>), j + 1)
                ELSE ParseMembers(t, j, <<>>)
              : j \in {SkipWs(t, i + 1)} })
    [] At(t, i) = "[" ->
         Only({ IF At(t, j) = "]" THEN ParseOk(JArr(<<>>), j + 1)
                ELSE ParseElems(t, j, <<>>)
              : j \in {SkipWs(t, i + 1)} })
    [] At(t, i) = QT -> ScanString(t, i + 1)
    [] IsDigit(At(t, i)) -> ParseNumber(t, i)
    [] At(t, i) = "n" -> ParseLiteral(t, i, <<"n", "u", "l", "l">>, JNull)
    [] At(t, i) = "t" -> ParseLiteral(t, i, <<"t", "r", "u", "e">>, JTrue)
    [] OTHER -> ParseFail

ParseValue(t, i0) == Only({ ValueAt(t, i) : i \in {SkipWs(t, i0)} })

\* After a member's value: a comma and more members, or the closing brace.
MembersNext(t, e, m) ==
  IF At(t, e) = "," THEN ParseMembers(t, e + 1, m)
  ELSE IF At(t, e) = "}" THEN ParseOk(JObj(m), e + 1)
  ELSE ParseFail

MemberValue(t, c, key, acc) ==
  IF At(t, c) # ":" THEN ParseFail
  ELSE Only({ IF ~val.ok THEN ParseFail
              ELSE Only({ MembersNext(t, e, m)
                        : e \in {SkipWs(t, val.i)},
                          m \in {AddMember(acc, key, val.v)} })
            : val \in {ParseValue(t, c + 1)} })

MemberAt(t, i, acc) ==
  IF At(t, i) # QT THEN ParseFail
  ELSE Only({ IF ~key.ok THEN ParseFail
              ELSE Only({ MemberValue(t, c, key.v.s, acc)
                        : c \in {SkipWs(t, key.i)} })
            : key \in {ScanString(t, i + 1)} })

ParseMembers(t, i0, acc) ==
  Only({ MemberAt(t, i, a) : i \in {SkipWs(t, i0)}, a \in {acc} })

ElemsNext(t, e, a) ==
  IF At(t, e) = "," THEN ParseElems(t, e + 1, a)
  ELSE IF At(t, e) = "]" THEN ParseOk(JArr(a), e + 1)
  ELSE ParseFail

ParseElems(t, i0, acc) ==
  Only({ IF ~val.ok THEN ParseFail
         ELSE Only({ ElemsNext(t, e, a)
                   : e \in {SkipWs(t, val.i)}, a \in {Append(acc, val.v)} })
       : val \in {ParseValue(t, i0)} })

\* JSON.parse(text): [ok, v]; ok = FALSE models the SyntaxError thrown.
parse(t) ==
  Only({ IF r.ok /\ SkipWs(t, r.i) = Len(t) + 1
         THEN [ok |-> TRUE, v |-> r.v]
         ELSE [ok |-> FALSE, v |-> JNull]
       : r \in {ParseValue(t, 1)} })

\* extractLastJsonObject(txt): scan for the last '{' and JSON.parse from
\* there; ok = FALSE models either throw.
extractLastJsonObject(txt) ==
  Only({ IF idx = 0 THEN [ok |-> FALSE, v |-> JNull]
         ELSE Only({ parse(slice) : slice \in {sliceFrom(txt, idx)} })
       : idx \in {lastIndexOf(txt, "{", Len(txt))} })

(***************************************************************************)
(* State.                                                                  *)
(*   tool      what load returned: the closure's captured values           *)
(*   loadErr   the error load rejected with ("" while there is none)       *)
(* Per invocation i of the loaded callable (one call of spawnOnce):        *)
(*   child     the child process: none, running, exited (close not yet     *)
(*             emitted), killed (SIGKILL delivered, close not yet          *)
(*             emitted), spawnfail (spawn failed, 'error' not yet          *)
(*             emitted), errored ('error' emitted), closed                 *)
(*   payload   the input the callable was called with                      *)
(*   exitCode  the code the child exited with; <<>> is null (a signal)     *)
(*   stdin     what was written to the child's input                       *)
(*   out, err  the captured streams                                        *)
(*   nData     data events handled so far                                  *)
(*   promise   the promise spawnOnce returned                              *)
(*   timer     the deadline timer: none, armed, fired, cleared             *)
(*   work      the isolated run directory made by mkdtempSync              *)
(*   sigGroup, sigChild                                                    *)
(*             whether killTree signalled the group / the child            *)
(*   dirs      the run directories that exist on disk                      *)
(*   call      what the call handed to spawn() and has done since          *)
(* And for the calling process as a whole:                                 *)
(*   uncaught  the invocations whose 'error' event found no listener and   *)
(*             was thrown as an uncaught exception: the process has        *)
(*             crashed when there is one                                   *)
(***************************************************************************)
(***************************************************************************)
(* Plain strings (specifiers, names, version tokens, commands) are         *)
(* sequences of one-character strings.  Indices are JavaScript's: 0-based, *)
(* -1 for "not found".                                                     *)
(***************************************************************************)
UPPER == <<"A", "B", "C", "D", "E", "F", "G", "H", "I", "J", "K", "L", "M",
           "N", "O", "P", "Q", "R", "S", "T", "U", "V", "W", "X", "Y", "Z">>
LOWER == <<"a", "b", "c", "d", "e", "f", "g", "h", "i", "j", "k", "l", "m",
           "n", "o", "p", "q", "r", "s", "t", "u", "v", "w", "x", "y", "z">>

LowerChar(ch) ==
  IF \E k \in 1..Len(UPPER) : UPPER[k] = ch
  THEN LOWER[CHOOSE k \in 1..Len(UPPER) : UPPER[k] = ch]
  ELSE ch

toLowerCase(s) == [k \in 1..Len(s) |-> LowerChar(s[k])]

\* s.lastIndexOf(ch)
lastIndexOfChar(s, ch) ==
  IF \E k \in 1..Len(s) : s[k] = ch
  THEN (CHOOSE k \in 1..Len(s) : s[k] = ch /\ \A m \in (k + 1)..Len(s) : s[m] # ch) - 1
  ELSE -1

\* s.slice(a, b) and s.slice(a), for 0 <= a.
slice(s, a, b) == SubSeq(s, a + 1, b)
sliceRest(s, a) == SubSeq(s, a + 1, Len(s))

startsWith(s, pre) == Len(s) >= Len(pre) /\ SubSeq(s, 1, Len(pre)) = pre
endsWith(s, suf) == Len(s) >= Len(suf) /\ SubSeq(s, Len(s) - Len(suf) + 1, Len(s)) = suf

\* s.trim()
trim(s) ==
  LET keep == {k \in 1..Len(s) : ~IsWs(s[k])} IN
  IF keep = {} THEN <<>>
  ELSE SubSeq(s, CHOOSE k \in keep : \A m \in keep : k <= m,
                 CHOOSE k \in keep : \A m \in keep : k >= m)

\* s.split('/')
RECURSIVE split(_)
split(s) ==
  IF \E k \in 1..Len(s) : s[k] = "/"
  THEN LET k == CHOOSE j \in 1..Len(s) : s[j] = "/" /\ \A m \in 1..(j - 1) : s[m] # "/"
       IN <<SubSeq(s, 1, k - 1)>> \o split(SubSeq(s, k + 1, Len(s)))
  ELSE <<s>>

\* path.basename(p): what follows the last separator.
basename(s) == sliceRest(s, lastIndexOfChar(s, "/") + 1)

(***************************************************************************)
(* The semver package, for versions of the form d.d.d (an optional leading *)
(* "v" is accepted by valid) and the ranges *, "", d, ^d.d.d, ~d.d.d,      *)
(* >=d.d.d and d.d.d.                                                      *)
(***************************************************************************)
DIGITS == <<"0", "1", "2", "3", "4", "5", "6", "7", "8", "9">>
DigitVal(ch) == (CHOOSE k \in 1..Len(DIGITS) : DIGITS[k] = ch) - 1

IsXYZ(s) ==
  /\ Len(s) = 5
  /\ IsDigit(s[1]) /\ s[2] = "." /\ IsDigit(s[3]) /\ s[4] = "." /\ IsDigit(s[5])

\* The numbers of a version d.d.d.
VersionOf(s) ==
  LET d == IF s[1] = "v" THEN Tail(s) ELSE s IN
  <<DigitVal(d[1]), DigitVal(d[3]), DigitVal(d[5])>>

\* semver.valid(v) !== null
semverValid(s) == IsXYZ(s) \/ (Len(s) = 6 /\ s[1] = "v" /\ IsXYZ(Tail(s)))

\* semver.gt(a, b) on the numbers of two versions.
VersionGt(a, b) ==
  \/ a[1] > b[1]
  \/ a[1] = b[1] /\ a[2] > b[2]
  \/ a[1] = b[1] /\ a[2] = b[2] /\ a[3] > b[3]

VersionGe(a, b) == a = b \/ VersionGt(a, b)

\* semver.validRange(r) !== null
semverValidRange(r) ==
  \/ r = <<>>
  \/ r = <<"*">>
  \/ Len(r) = 1 /\ IsDigit(r[1])
  \/ IsXYZ(r)
  \/ Len(r) = 6 /\ r[1] \in {"^", "~"} /\ IsXYZ(Tail(r))
  \/ Len(r) = 7 /\ r[1] = ">" /\ r[2] = "=" /\ IsXYZ(Tail(Tail(r)))

\* semver.satisfies(v, r) for a valid version v and a valid range r.
semverSatisfies(v, r) ==
  LET n == VersionOf(v) IN
  CASE r = <<>> \/ r = <<"*">> -> TRUE
    [] Len(r) = 1 -> n[1] = DigitVal(r[1])
    [] Len(r) = 5 -> n = VersionOf(r)
    [] Len(r) = 6 /\ r[1] = "^" ->
         LET b == VersionOf(Tail(r)) IN
         /\ VersionGe(n, b)
         /\ IF b[1] > 0 THEN n[1] = b[1]
            ELSE IF b[2] > 0 THEN n[1] = 0 /\ n[2] = b[2]
            ELSE n = b
    [] Len(r) = 6 /\ r[1] = "~" ->
         LET b == VersionOf(Tail(r)) IN
         VersionGe(n, b) /\ n[1] = b[1] /\ n[2] = b[2]
    [] OTHER -> VersionGe(n, VersionOf(Tail(Tail(r))))

\* The greatest of a non-empty set of versions d.d.d.
MaxVersion(V) ==
  CHOOSE v \in V : \A w \in V : VersionGe(VersionOf(v), VersionOf(w))

\* semver.rsort(installed)[0]: undefined (<<>>) for an empty list.
semverLatest(V) == IF V = {} THEN <<>> ELSE MaxVersion(V)

\* semver.maxSatisfying(installed, range): null (<<>>) when none satisfies.
semverMaxSatisfying(V, r) ==
  LET ok == {v \in V : semverSatisfies(v, r)} IN
  IF ok = {} THEN <<>> ELSE MaxVersion(ok)

VARIABLES fs, procEnv, executables, req, tool, loadErr, match, cwd, ret, nChecks,
          payload, child, exitCode, stdin, out, err, nData, promise, timer, work,
          sigGroup, sigChild, dirs, call, uncaught

runVars == <<payload, child, exitCode, stdin, out, err, nData, promise, timer, work,
             sigGroup, sigChild, dirs, call, uncaught>>
loadVars == <<fs, procEnv, executables, req, tool, loadErr, match, cwd, ret, nChecks>>

\* Invocation identities, and the names mkdtempSync may produce.
Invs == {"i1", "i2"}
RunNames == {"run-a", "run-b"}
NoDir == ""

limit == 10 * 1024 * 1024
TAIL_CHARS == 4000

\* Bound: data events handled per invocation.
MaxChunks == 2

\* Exit codes: a number <<n>>, or <<>> for null (the child died of a signal).
Code(n) == <<n>>
NullCode == <<>>
ENOENT == Code(-2)

NoError == [kind |-> "", code |-> NullCode, ms |-> 0, tail |-> <<>>, otail |-> <<>>]
TimeoutError(ms) == [NoError EXCEPT !.kind = "timeout", !.ms = ms]
OutputLimitError == [NoError EXCEPT !.kind = "limit"]
SpawnError == [NoError EXCEPT !.kind = "spawn", !.code = ENOENT]
ExitError(code, tail) == [NoError EXCEPT !.kind = "exit", !.code = code, !.tail = tail]
FormatError(tail, otail) == [NoError EXCEPT !.kind = "format", !.tail = tail, !.otail = otail]

NoPromise == [st |-> "none", val |-> JNull, e |-> NoError]
Pending == [NoPromise EXCEPT !.st = "pending"]

\* rejectP taking effect on a promise that is already settled.
rejectPAgain(p, e) == [p EXCEPT !.st = "rejected", !.e = e]

\* resolveP / rejectP: only the first settlement of a promise has an effect.
resolveP(p, v) == IF p.st = "pending" THEN [p EXCEPT !.st = "resolved", !.val = v] ELSE p
rejectP(p, e) == IF p.st = "pending" THEN [p EXCEPT !.st = "rejected", !.e = e] ELSE p

\* clearTimeout(t): a timer that has not fired never fires.
clearTimeout(t) == IF t = "armed" THEN "cleared" ELSE t

\* SIGKILL ends a running child; one that has already exited is unaffected.
Killed(c) == IF c = "running" THEN "killed" ELSE c

(***************************************************************************)
(* Locating a tool.  A directory is a sequence of path segments; a file    *)
(* system entry [base, dir, ver, man] is the version directory             *)
(* base/dir/ver, holding the manifest man or (NoManifest) no agent.json.   *)
(***************************************************************************)
NoManifest == [present |-> FALSE, name |-> <<>>, version |-> <<>>, command |-> <<>>,
               timeout_ms |-> <<>>, env |-> <<>>, runtime |-> <<>>, cwd |-> <<>>,
               description |-> <<>>, inputs |-> <<>>, outputs |-> <<>>, args |-> <<>>]

\* An agent.json: runtime is <<>> or <<type>>, timeout_ms is <<>> or <<n>>;
\* entrypoint.cwd, description, inputs and outputs are absent (<<>>), and
\* entrypoint.args is absent or empty (<<>>).
Manifest(name, version, command, timeout, env, runtime) ==
  [NoManifest EXCEPT !.present = TRUE, !.name = name, !.version = version,
                     !.command = command, !.timeout_ms = timeout, !.env = env,
                     !.runtime = runtime]

\* Paths are sequences of segments; a relative path begins with ".".
DOT == <<".">>
isAbsolute(p) == p # <<>> /\ p[1] # "."
\* path.join(p, ...segs), normalised: join('.', 'run') is the relative 'run'.
join(p, segs) == p \o segs
\* path.resolve(base, p) for an absolute base.
resolve(base, p) == IF isAbsolute(p) THEN p ELSE base \o Tail(p)

\* process.env[k], entryEnv[k], ...: <<>> stands for undefined.
Get(env, k) == IF k \in DOMAIN env THEN env[k] ELSE <<>>

\* Object.assign(target, source)
Assign(target, source) ==
  [k \in DOMAIN target \cup DOMAIN source |->
     IF k \in DOMAIN source THEN source[k] ELSE target[k]]

NoEnv == <<>>

\* findProjectRoot(process.cwd())
projectRoot == <<"p">>

\* path.resolve(dir, '.agentpm/tools')
toolsUnder(dir) == dir \o <<".agentpm", "tools">>

hasManifest(base, dir, ver) ==
  \E e \in fs : e.base = base /\ e.dir = dir /\ e.ver = ver /\ e.man.present

\* readdirSync(nameDir); empty when nameDir does not exist.
readdir(base, dir) == {e.ver : e \in {f \in fs : f.base = base /\ f.dir = dir}}

\* The name directories tried for a package name, in order.
candidateNameDirs(name) ==
  LET parts == split(name) IN
  IF Len(parts) = 2
  THEN LET rawScope == parts[1]
           pkg == parts[2]
           scope == IF startsWith(rawScope, <<"@">>) THEN Tail(rawScope) ELSE rawScope
       IN << <<"@">> \o scope \o <<"/">> \o pkg,
             scope \o <<"/">> \o pkg,
             scope \o <<"_", "_">> \o pkg,
             scope \o <<"-">> \o pkg >>
  ELSE <<name>>

\* readdirSync over the name directories, every semver-named entry counted
\* (the existsSync of its agent.json left out).
installedInNoManifestCheck(base, nameDirs) ==
  {v \in UNION {readdir(base, nameDirs[k]) : k \in 1..Len(nameDirs)} : semverValid(v)}

\* The loop of listInstalledVersions over the name directories.
installedIn(base, nameDirs) ==
  UNION { {v \in readdir(base, nameDirs[k]) :
             semverValid(v) /\ hasManifest(base, nameDirs[k], v)}
        : k \in 1..Len(nameDirs) }

listInstalledVersions(base, name) == installedIn(base, candidateNameDirs(name))

NoHit == [found |-> FALSE, base |-> <<>>, dir |-> <<>>, ver |-> <<>>]
Hit(base, dir, ver) == [found |-> TRUE, base |-> base, dir |-> dir, ver |-> ver]

\* The first of the name directories that holds version/agent.json.
findIn(base, nameDirs, version) ==
  Only({ IF hits = {} THEN NoHit
         ELSE Hit(base, nameDirs[CHOOSE k \in hits : \A m \in hits : k <= m], version)
       : hits \in {{k \in 1..Len(nameDirs) : hasManifest(base, nameDirs[k], version)}} })

findInstalled(base, name, version) == findIn(base, candidateNameDirs(name), version)

NoLoadError == [kind |-> "", what |-> <<>>, aux |-> <<>>]
LoadError(kind, what, aux) == [kind |-> kind, what |-> what, aux |-> aux]

\* The exact-version loop over the candidate roots from position k on.
RECURSIVE firstExact(_, _, _, _)
firstExact(candidates, k, name, version) ==
  IF k > Len(candidates) THEN NoHit
  ELSE Only({ IF hit.found THEN hit ELSE firstExact(candidates, k + 1, name, version)
            : hit \in {findInstalled(candidates[k], name, version)} })

\* const picked = isLatest ? rsort(installed)[0] : maxSatisfying(installed, range)
pick(installed, range, isLatest) ==
  IF isLatest THEN semverLatest(installed) ELSE semverMaxSatisfying(installed, range)

\* The hit for the picked version; none when nothing was picked.
hitFor(base, name, picked) ==
  IF picked = <<>> THEN NoHit ELSE findInstalled(base, name, picked)

\* firstMatching ending the search at the first root, match or not.
firstMatchingNoSkip(candidates, k, name, range, isLatest) ==
  IF k > Len(candidates) THEN NoHit
  ELSE hitFor(candidates[k], name,
              pick(listInstalledVersions(candidates[k], name), range, isLatest))

\* The "latest"/range loop over the candidate roots from position k on.
RECURSIVE firstMatching(_, _, _, _, _)
firstMatching(candidates, k, name, range, isLatest) ==
  IF k > Len(candidates) THEN NoHit
  ELSE Only({ IF hit.found THEN hit
              ELSE firstMatching(candidates, k + 1, name, range, isLatest)
            : hit \in {hitFor(candidates[k], name,
                              pick(listInstalledVersions(candidates[k], name),
                                   range, isLatest))} })

LATEST == <<"l", "a", "t", "e", "s", "t">>

\* [toolDirOverride, AGENTPM_TOOL_DIR, project tools, home tools].filter(Boolean)
candidateRoots(toolDirOverride) ==
  SelectSeq(<< toolDirOverride,
               Get(procEnv, "AGENTPM_TOOL_DIR"),
               toolsUnder(projectRoot),
               IF Get(procEnv, "HOME") # <<>> THEN toolsUnder(Get(procEnv, "HOME")) ELSE <<>> >>,
            LAMBDA c : c # <<>>)

\* What resolveToolRoot returns for a hit, or throws (err) without one.
located(hit, thrown) == [hit |-> hit, err |-> IF hit.found THEN NoLoadError ELSE thrown]

\* resolveNamed looking the token up as a version directory before judging
\* its form.
resolveNamedLookupFirst(spec, name, rangeOrVersion, candidates) ==
  IF semverValid(rangeOrVersion)
       \/ firstExact(candidates, 1, name, rangeOrVersion).found
  THEN located(firstExact(candidates, 1, name, rangeOrVersion),
               LoadError("not-found", spec, <<>>))
  ELSE IF toLowerCase(rangeOrVersion) # LATEST /\ ~semverValidRange(rangeOrVersion)
  THEN located(NoHit, LoadError("invalid-range", rangeOrVersion, <<>>))
  ELSE located(firstMatching(candidates, 1, name, rangeOrVersion,
                             toLowerCase(rangeOrVersion) = LATEST),
               LoadError("no-match", name, rangeOrVersion))

\* resolveToolRoot once name and version token are cut out of the spec.
resolveNamed(spec, name, rangeOrVersion, candidates) ==
  IF semverValid(rangeOrVersion)
  THEN located(firstExact(candidates, 1, name, rangeOrVersion),
               LoadError("not-found", spec, <<>>))
  ELSE IF toLowerCase(rangeOrVersion) # LATEST /\ ~semverValidRange(rangeOrVersion)
  THEN located(NoHit, LoadError("invalid-range", rangeOrVersion, <<>>))
  ELSE located(firstMatching(candidates, 1, name, rangeOrVersion,
                             toLowerCase(rangeOrVersion) = LATEST),
               LoadError("no-match", name, rangeOrVersion))

\* resolveToolRoot once the last '@' is found.
resolveAt(spec, atIdx, toolDirOverride) ==
  IF atIdx <= 0 \/ atIdx = Len(spec) - 1
  THEN located(NoHit, LoadError("invalid-spec", spec, <<>>))
  ELSE resolveNamed(spec, slice(spec, 1, atIdx), trim(sliceRest(spec, atIdx + 1)),
                    candidateRoots(toolDirOverride))

\* resolveToolRoot: [hit, err]; err.kind = "" when a manifest was found.
resolveToolRoot(spec, toolDirOverride) ==
  Only({ resolveAt(spec, atIdx, toolDirOverride) : atIdx \in {lastIndexOfChar(spec, "@")} })

\* readFileSync + JSON.parse of the manifest at a hit.
readManifest(hit) ==
  (CHOOSE e \in fs : e.base = hit.base /\ e.dir = hit.dir /\ e.ver = hit.ver).man

(***************************************************************************)
(* Interpreter resolution and the load-time checks.                        *)
(***************************************************************************)
NODE == <<"n", "o", "d", "e">>
NODEJS == <<"n", "o", "d", "e", "j", "s">>
PYTHON == <<"p", "y", "t", "h", "o", "n">>
PYTHON3 == <<"p", "y", "t", "h", "o", "n", "3">>

ALLOWED_INTERPRETERS == {NODE, NODEJS, PYTHON, PYTHON3}

\* merged: process.env, then the manifest's env, then the caller's.
mergeEnv(entryEnv, callerEnv) == Assign(Assign(procEnv, entryEnv), callerEnv)

\* base.replace(/\.(exe|cmd|bat)$/i, '') on a lower-cased base name.
stripExt(b) ==
  IF \E ext \in {<<".", "e", "x", "e">>, <<".", "c", "m", "d">>, <<".", "b", "a", "t">>} :
       endsWith(b, ext)
  THEN SubSeq(b, 1, Len(b) - 4)
  ELSE b

canonicalInterpreter(cmd) == stripExt(toLowerCase(basename(cmd)))

\* /^(node|nodejs)$/i
BARE_NODE(b) == b \in {NODE, NODEJS}

\* (\.\d+)*$
RECURSIVE DotDigits(_)
DotDigits(s) ==
  \/ s = <<>>
  \/ /\ Len(s) >= 2 /\ s[1] = "." /\ IsDigit(s[2])
     /\ LET k == CHOOSE j \in 2..Len(s) :
                   /\ \A m \in 2..j : IsDigit(s[m])
                   /\ (j = Len(s) \/ ~IsDigit(s[j + 1]))
        IN DotDigits(SubSeq(s, k + 1, Len(s)))

\* /^python(3(\.\d+)*)?$/i
BARE_PY(b) == b = PYTHON \/ (startsWith(b, PYTHON3) /\ DotDigits(sliceRest(b, 7)))

familyOfBase(base) ==
  IF BARE_NODE(base) THEN "node"
  ELSE IF BARE_PY(base) THEN "python"
  ELSE ""

\* interpreterFamily: "node", "python" or "" (null).
interpreterFamily(cmd) == familyOfBase(stripExt(toLowerCase(basename(cmd))))

\* The family the override is chosen by: the one inferred from the command,
\* else the runtime hint.
familyOf(inferred, runtime) ==
  IF inferred # "" THEN inferred
  ELSE IF runtime # <<>> /\ runtime[1] = NODE THEN "node"
  ELSE IF runtime # <<>> /\ runtime[1] = PYTHON THEN "python"
  ELSE ""

\* overrideFor applying whichever override variable is set, whatever the
\* family.
overrideForAnyFamily(cmd, family, merged) ==
  IF Get(merged, "AGENTPM_NODE") # <<>> THEN Get(merged, "AGENTPM_NODE")
  ELSE IF Get(merged, "AGENTPM_PYTHON") # <<>> THEN Get(merged, "AGENTPM_PYTHON")
  ELSE cmd

overrideFor(cmd, family, merged) ==
  IF family = "node" /\ Get(merged, "AGENTPM_NODE") # <<>>
  THEN Get(merged, "AGENTPM_NODE")
  ELSE IF family = "python" /\ Get(merged, "AGENTPM_PYTHON") # <<>>
  THEN Get(merged, "AGENTPM_PYTHON")
  ELSE cmd

\* runtime is <<>> (no runtime declared) or <<type>>.
resolveInterpreterCommand(cmd, entryEnv, callerEnv, runtime) ==
  overrideFor(cmd, familyOf(interpreterFamily(cmd), runtime), mergeEnv(entryEnv, callerEnv))

\* assertAllowedInterpreter with the whitelist test left out.
assertAllowedInterpreterAllowAll(cmd) == NoLoadError

\* The error assertAllowedInterpreter throws; NoLoadError when it returns.
assertAllowedInterpreter(cmd) ==
  IF \E canon \in {canonicalInterpreter(cmd)} :
       canon \notin ALLOWED_INTERPRETERS /\ ~startsWith(canon, PYTHON3)
  THEN LoadError("unsupported", cmd, <<>>)
  ELSE NoLoadError

\* resolveOnPath finds cmd, or the --version probe can start it.
assertInterpreterAvailable(cmd, entryEnv, callerEnv) ==
  IF cmd \notin executables
  THEN LoadError("interpreter-not-found", cmd, <<>>)
  ELSE NoLoadError

\* ALIASES.get(r): the commands a runtime name also stands for.
ALIASES(r) ==
  IF r = PYTHON THEN {PYTHON3}
  ELSE IF r = NODE THEN {NODEJS}
  ELSE {}

isInterpreterMatch(runtime, command) ==
  \E r \in {toLowerCase(runtime)}, c \in {toLowerCase(command)} :
    r = c \/ c \in ALIASES(r)

assertInterpreterMatchesRuntime(cmd, runtimeType) ==
  IF ~isInterpreterMatch(canonicalInterpreter(runtimeType), canonicalInterpreter(cmd))
  THEN LoadError("runtime-mismatch", cmd, canonicalInterpreter(runtimeType))
  ELSE NoLoadError

\* What load returns: the callable's closure (the hit's directory is root).
\* entry and env are what func closes over besides root and timeoutMs.
NoTool == [loaded |-> FALSE, command |-> <<>>, timeoutMs |-> 0, root |-> NoHit,
           entry |-> NoManifest, env |-> <<>>]
Tool(command, timeoutMs, hit) ==
  [NoTool EXCEPT !.loaded = TRUE, !.command = command, !.timeoutMs = timeoutMs,
                 !.root = hit]

\* entryForSpawn keeping the manifest's own command.
entryForSpawnRaw(manifest, resolvedCmd) == manifest

\* const entryForSpawn = { ...manifest.entrypoint, command: resolvedCmd }
entryForSpawn(manifest, resolvedCmd) == [manifest EXCEPT !.command = resolvedCmd]

\* func: the callable, closing over entryForSpawn and options.env.
func(t, entry, callerEnv) == [t EXCEPT !.entry = entry, !.env = callerEnv]

\* options: toolDirOverride (<<>> when absent), env, timeoutMs (<<>> or <<n>>).
\* withMeta is absent (<<>>) unless set: <<TRUE>> or <<FALSE>>.
Options(toolDirOverride, env, timeoutMs) ==
  [toolDirOverride |-> toolDirOverride, env |-> env, timeoutMs |-> timeoutMs,
   withMeta |-> <<>>]

DEFAULT_TIMEOUT_MS == 120000

\* timeoutFor with the manifest's timeout_ms ahead of options.timeoutMs.
timeoutForManifestFirst(manifest, options) ==
  IF manifest.timeout_ms # <<>> THEN manifest.timeout_ms[1]
  ELSE IF options.timeoutMs # <<>> THEN options.timeoutMs[1]
  ELSE DEFAULT_TIMEOUT_MS

\* options.timeoutMs ?? manifest.entrypoint?.timeout_ms ?? DEFAULT_TIMEOUT_MS
timeoutFor(manifest, options) ==
  IF options.timeoutMs # <<>> THEN options.timeoutMs[1]
  ELSE IF manifest.timeout_ms # <<>> THEN manifest.timeout_ms[1]
  ELSE DEFAULT_TIMEOUT_MS

\* firstError that hands out the callable although a check has thrown.
firstErrorStillBuilt(errs, built) ==
  IF \E k \in 1..Len(errs) : errs[k] # NoLoadError
  THEN [tool |-> built,
        err |-> errs[CHOOSE k \in 1..Len(errs) :
                       errs[k] # NoLoadError /\ \A m \in 1..(k - 1) : errs[m] = NoLoadError]]
  ELSE [tool |-> built, err |-> NoLoadError]

\* The first error of the checks, in the order they run; else the tool.
firstError(errs, built) ==
  IF \E k \in 1..Len(errs) : errs[k] # NoLoadError
  THEN [tool |-> NoTool,
        err |-> errs[CHOOSE k \in 1..Len(errs) :
                       errs[k] # NoLoadError /\ \A m \in 1..(k - 1) : errs[m] = NoLoadError]]
  ELSE [tool |-> built, err |-> NoLoadError]

\* load from the whitelist check on, for the resolved command.
checkResolved(hit, manifest, options, resolvedCmd) ==
  firstError(<< assertAllowedInterpreter(resolvedCmd),
                assertInterpreterAvailable(resolvedCmd, manifest.env, options.env),
                IF manifest.runtime # <<>>
                THEN assertInterpreterMatchesRuntime(resolvedCmd, manifest.runtime[1])
                ELSE NoLoadError >>,
             func(Tool(resolvedCmd, timeoutFor(manifest, options), hit),
                  entryForSpawn(manifest, resolvedCmd), options.env))

\* load after the manifest has been read.
checkAndBuild(hit, manifest, options) ==
  IF manifest.command = <<>>
  THEN [tool |-> NoTool, err |-> LoadError("manifest", hit.dir \o <<"/">> \o hit.ver, <<>>)]
  ELSE checkResolved(hit, manifest, options,
                     resolveInterpreterCommand(manifest.command, manifest.env,
                                               options.env, manifest.runtime))

\* load after resolveToolRoot.
loadLocated(loc, options) ==
  IF ~loc.hit.found THEN [tool |-> NoTool, err |-> loc.err]
  ELSE checkAndBuild(loc.hit, readManifest(loc.hit), options)

\* The outcome of load(spec, options): the tool returned or the error thrown.
loadOutcome(spec, options) ==
  loadLocated(resolveToolRoot(spec, options.toolDirOverride), options)

NoReq == [called |-> FALSE, spec |-> <<>>, options |-> Options(<<>>, NoEnv, <<>>)]

\* meta: the manifest's name, version, description, inputs and outputs.
NoMeta == [name |-> <<>>, version |-> <<>>, description |-> <<>>, inputs |-> <<>>,
           outputs |-> <<>>]
ToolMeta(manifest) ==
  [name |-> manifest.name, version |-> manifest.version,
   description |-> manifest.description, inputs |-> manifest.inputs,
   outputs |-> manifest.outputs]

\* The value load resolves with: func, or { func, meta } when options.withMeta.
NoLoaded == [shape |-> "none", meta |-> NoMeta]
LoadedNeverPair(t, options) ==
  IF ~t.loaded THEN NoLoaded ELSE [shape |-> "func", meta |-> NoMeta]
Loaded(t, options) ==
  IF ~t.loaded THEN NoLoaded
  ELSE IF options.withMeta = <<TRUE>>
  THEN [shape |-> "pair", meta |-> ToolMeta(readManifest(t.root))]
  ELSE [shape |-> "func", meta |-> NoMeta]

\* Whether this load got as far as resolving and checking the interpreter.
checked(r) ==
  r.tool.loaded \/ r.err.kind \in {"unsupported", "interpreter-not-found", "runtime-mismatch"}

\* await load(spec, options)
load(spec, options) ==
  /\ req' = [called |-> TRUE, spec |-> spec, options |-> options]
  /\ \E r \in {loadOutcome(spec, options)} :
       /\ tool' = r.tool
       /\ loadErr' = r.err
       /\ ret' = Loaded(r.tool, options)
       /\ nChecks' = nChecks + IF checked(r) THEN 1 ELSE 0
  /\ UNCHANGED <<fs, procEnv, executables, match, cwd, runVars>>

NoMatch == [called |-> FALSE, runtime |-> <<>>, command |-> <<>>, result |-> FALSE]

\* A call of the exported isInterpreterMatch(runtime, command).
callIsInterpreterMatch(runtime, command) ==
  /\ match' = [called |-> TRUE, runtime |-> runtime, command |-> command,
               result |-> isInterpreterMatch(runtime, command)]
  /\ UNCHANGED <<fs, procEnv, executables, req, tool, loadErr, cwd, ret, nChecks, runVars>>

\* Bound: version directories on disk.
MaxFiles == 2

\* A version directory appears under a search root, with or without its
\* agent.json (the package manager's doing).
install(base, dir, ver, man) ==
  /\ Cardinality(fs) < MaxFiles
  /\ ~\E e \in fs : e.base = base /\ e.dir = dir /\ e.ver = ver
  /\ fs' = fs \cup {[base |-> base, dir |-> dir, ver |-> ver, man |-> man]}
  /\ UNCHANGED <<procEnv, executables, req, tool, loadErr, match, cwd, ret, nChecks, runVars>>

\* process.env[k] = v, by the calling program.
setenv(k, v) ==
  /\ procEnv' = Assign(procEnv, [n \in {k} |-> v])
  /\ UNCHANGED <<fs, executables, req, tool, loadErr, match, cwd, ret, nChecks, runVars>>

\* The agent.json of an installed version directory is replaced by man.
rewriteManifest(man) ==
  /\ fs # {}
  /\ fs' = {[e EXCEPT !.man = man] : e \in fs}
  /\ fs' # fs
  /\ UNCHANGED <<procEnv, executables, req, tool, loadErr, match, cwd, ret, nChecks, runVars>>

\* closeOutcome with the whole error stream in the message (no slice(-4000)).
closeOutcomeNoSlice(p, code, o, e) ==
  IF code # Code(0)
  THEN rejectP(p, ExitError(code, e))
  ELSE Only({ IF lastJson.ok THEN resolveP(p, lastJson.v)
              ELSE rejectP(p, FormatError(e, o))
            : lastJson \in {extractLastJsonObject(o)} })

\* closeOutcome with the whole of stdout in the output-format error.
closeOutcomeWholeStdout(p, code, o, e) ==
  IF code # Code(0)
  THEN rejectP(p, ExitError(code, sliceLast(e, TAIL_CHARS)))
  ELSE Only({ IF lastJson.ok THEN resolveP(p, lastJson.v)
              ELSE rejectP(p, FormatError(sliceLast(e, TAIL_CHARS), o))
            : lastJson \in {extractLastJsonObject(o)} })

\* The close handler's settlement for exit code `code`.
closeOutcome(p, code, o, e) ==
  IF code # Code(0)
  THEN rejectP(p, ExitError(code, sliceLast(e, TAIL_CHARS)))
  ELSE Only({ IF lastJson.ok THEN resolveP(p, lastJson.v)
              ELSE rejectP(p, FormatError(sliceLast(e, TAIL_CHARS), sliceLast(o, TAIL_CHARS)))
            : lastJson \in {extractLastJsonObject(o)} })

\* What a data handler does once it has appended the chunk: past the limit,
\* killTree(), clearTimeout(t), rejectP(...).
overLimit(o, e) == byteLength(o) + byteLength(e) > limit

\* afterData without the clearTimeout(t).
afterDataNoClear(i, o, e) ==
  IF overLimit(o, e)
  THEN /\ sigGroup' = [sigGroup EXCEPT ![i] = TRUE]
       /\ sigChild' = [sigChild EXCEPT ![i] = TRUE]
       /\ child' = [child EXCEPT ![i] = Killed(@)]
       /\ promise' = [promise EXCEPT ![i] = rejectP(@, OutputLimitError)]
       /\ UNCHANGED timer
  ELSE UNCHANGED <<sigGroup, sigChild, child, timer, promise>>

afterData(i, o, e) ==
  IF overLimit(o, e)
  THEN /\ sigGroup' = [sigGroup EXCEPT ![i] = TRUE]
       /\ sigChild' = [sigChild EXCEPT ![i] = TRUE]
       /\ child' = [child EXCEPT ![i] = Killed(@)]
       /\ timer' = [timer EXCEPT ![i] = clearTimeout(@)]
       /\ promise' = [promise EXCEPT ![i] = rejectP(@, OutputLimitError)]
  ELSE UNCHANGED <<sigGroup, sigChild, child, timer, promise>>

\* baseEnv passing the whole parent environment on.
baseEnvInheritAll(home, tmpdir) ==
  Assign(procEnv, [PATH |-> Get(procEnv, "PATH"), HOME |-> home, TMPDIR |-> tmpdir])

\* buildEnv's base: PATH, HOME, TMPDIR, and LANG when process.env.LANG is
\* truthy.
baseEnv(home, tmpdir) ==
  IF Get(procEnv, "LANG") # <<>>
  THEN [PATH |-> Get(procEnv, "PATH"), HOME |-> home, TMPDIR |-> tmpdir,
        LANG |-> procEnv["LANG"]]
  ELSE [PATH |-> Get(procEnv, "PATH"), HOME |-> home, TMPDIR |-> tmpdir]

\* buildEnv with the caller's layer under the manifest's.
buildEnvCallerFirst(entryEnv, callerEnv, home, tmpdir) ==
  Assign(Assign(baseEnv(home, tmpdir), callerEnv), entryEnv)

\* { ...base, ...entryEnv, ...callerEnv }
buildEnv(entryEnv, callerEnv, home, tmpdir) ==
  Assign(Assign(baseEnv(home, tmpdir), entryEnv), callerEnv)

\* entry.cwd ?? '.'
cwdOr(entry) == IF entry.cwd = <<>> THEN DOT ELSE entry.cwd

\* work: mkdtempSync(join(runRoot, 'run-')), runRoot being
\* join(entry.cwd ?? '.', 'run'); d is the name mkdtempSync made up.
workOf(entry, d) == join(join(cwdOr(entry), <<"run">>), <<d>>)

\* What one call of the callable has done: spawn() calls, runs of
\* extractLastJsonObject, opts.timeoutMs (<<>> before the timer is set), the
\* child's cwd and env, where on disk the run directory was made, and the
\* command and arguments handed to spawn().
NoCall == [spawns |-> 0, extractions |-> 0, timeoutMs |-> <<>>, cwd |-> <<>>,
           env |-> <<>>, work |-> <<>>, command |-> <<>>, args |-> <<>>]

\* root: the version directory of the hit, join(nameDir, version); the name
\* and the version are spelt out piece by piece.
rootOf(hit) == hit.base \o hit.dir \o hit.ver

\* --max-old-space-size, and the flag spawnOnce adds.
MAX_OLD_SPACE_SIZE ==
  <<"-", "-", "m", "a", "x", "-", "o", "l", "d", "-", "s", "p", "a", "c", "e", "-",
    "s", "i", "z", "e">>
HARDENING_FLAG == MAX_OLD_SPACE_SIZE \o <<"=", "2", "5", "6">>

\* hardened that never adds the flag.
hardenedNever(cmd) == cmd

\* cmd after the hardening step: the flag spliced in at position 1 for a
\* command whose canonical name starts with "node", unless an element of
\* cmd starts with --max-old-space-size.
hardened(cmd) ==
  IF /\ startsWith(canonicalInterpreter(cmd[1]), NODE)
     /\ ~\E k \in 1..Len(cmd) : startsWith(cmd[k], MAX_OLD_SPACE_SIZE)
  THEN <<cmd[1], HARDENING_FLAG>> \o Tail(cmd)
  ELSE cmd

\* spawnOnce's setup and spawn, for the run directory name d.
started(c, entry, callerEnv, d) ==
  [c EXCEPT !.spawns = @ + 1,
            !.timeoutMs = <<tool.timeoutMs>>,
            !.cwd = resolve(rootOf(tool.root), cwdOr(entry)),
            !.env = buildEnv(entry.env, callerEnv,
                             join(workOf(entry, d), <<"home">>),
                             join(workOf(entry, d), <<"tmp">>)),
            !.work = resolve(cwd, workOf(entry, d)),
            !.command = entry.command,
            !.args = Tail(hardened(<<entry.command>> \o entry.args))]

\* spawnOnce up to the return of the promise: the run directory is made,
\* the child spawned (spawned = FALSE: the spawn fails, 'error' follows),
\* the timer armed, the handlers installed and the payload written.
\* mkdtempSync's random suffix d is taken to be one no earlier call was
\* given.
spawnOnce(i, input, d, spawned) ==
  /\ tool.loaded
  /\ child[i] = "none"
  /\ d \notin dirs
  /\ \A j \in Invs : work[j] # d
  /\ dirs' = dirs \cup {d}
  /\ work' = [work EXCEPT ![i] = d]
  /\ child' = [child EXCEPT ![i] = IF spawned THEN "running" ELSE "spawnfail"]
  /\ promise' = [promise EXCEPT ![i] = Pending]
  /\ timer' = [timer EXCEPT ![i] = "armed"]
  /\ payload' = [payload EXCEPT ![i] = input]
  /\ stdin' = [stdin EXCEPT ![i] = stringify(input)]
  /\ call' = [call EXCEPT ![i] = started(@, tool.entry, tool.env, d)]
  /\ UNCHANGED <<exitCode, out, err, nData, sigGroup, sigChild, uncaught, loadVars>>

\* child.stdout.on('data')
onStdoutData(i, c) ==
  /\ child[i] \in {"running", "exited", "killed"}
  /\ nData[i] < MaxChunks
  /\ nData' = [nData EXCEPT ![i] = @ + 1]
  /\ out' = [out EXCEPT ![i] = Cat(@, c)]
  /\ afterData(i, out'[i], err[i])
  /\ UNCHANGED <<payload, exitCode, stdin, err, work, dirs, call, uncaught, loadVars>>

\* child.stderr.on('data')
onStderrData(i, c) ==
  /\ child[i] \in {"running", "exited", "killed"}
  /\ nData[i] < MaxChunks
  /\ nData' = [nData EXCEPT ![i] = @ + 1]
  /\ err' = [err EXCEPT ![i] = Cat(@, c)]
  /\ afterData(i, out[i], err'[i])
  /\ UNCHANGED <<payload, exitCode, stdin, out, work, dirs, call, uncaught, loadVars>>

\* onTimeout without the rejectP: the kill alone, the close handler settles.
onTimeoutNoReject(i) ==
  /\ timer[i] = "armed"
  /\ child[i] \in {"running", "exited", "killed"}
  /\ timer' = [timer EXCEPT ![i] = "fired"]
  /\ sigGroup' = [sigGroup EXCEPT ![i] = TRUE]
  /\ sigChild' = [sigChild EXCEPT ![i] = TRUE]
  /\ child' = [child EXCEPT ![i] = Killed(@)]
  /\ UNCHANGED <<payload, exitCode, stdin, out, err, nData, promise, work, dirs, call, uncaught, loadVars>>

\* The setTimeout callback: killTree(), then rejectP(timed out).
onTimeout(i) ==
  /\ timer[i] = "armed"
  /\ child[i] \in {"running", "exited", "killed"}
  /\ timer' = [timer EXCEPT ![i] = "fired"]
  /\ sigGroup' = [sigGroup EXCEPT ![i] = TRUE]
  /\ sigChild' = [sigChild EXCEPT ![i] = TRUE]
  /\ child' = [child EXCEPT ![i] = Killed(@)]
  /\ promise' = [promise EXCEPT ![i] = rejectP(@, TimeoutError(tool.timeoutMs))]
  /\ UNCHANGED <<payload, exitCode, stdin, out, err, nData, work, dirs, call, uncaught, loadVars>>

\* child.stdin emits 'error' (EPIPE: the child closed its input, or ended,
\* before the payload written by child.stdin.end was taken).  spawnOnce
\* attaches no listener to child.stdin, so the event is thrown as an
\* uncaught exception of the calling process.
onStdinError(i) ==
  /\ child[i] \in {"running", "exited", "killed"}
  /\ stdin[i] # <<>>
  /\ stdin' = [stdin EXCEPT ![i] = <<>>]
  /\ uncaught' = uncaught \cup {i}
  /\ UNCHANGED <<payload, child, exitCode, out, err, nData, promise, timer, work,
                 sigGroup, sigChild, dirs, call, loadVars>>

\* child.on('error'): the spawn failed.
onError(i) ==
  /\ child[i] = "spawnfail"
  /\ child' = [child EXCEPT ![i] = "errored"]
  /\ exitCode' = [exitCode EXCEPT ![i] = ENOENT]
  /\ timer' = [timer EXCEPT ![i] = clearTimeout(@)]
  /\ dirs' = dirs \ {work[i]}
  /\ promise' = [promise EXCEPT ![i] = rejectP(@, SpawnError)]
  /\ UNCHANGED <<payload, stdin, out, err, nData, work, sigGroup, sigChild, call, uncaught, loadVars>>

\* The child ends by itself with exit code `code` (the environment's step).
childExit(i, code) ==
  /\ child[i] = "running"
  /\ child' = [child EXCEPT ![i] = "exited"]
  /\ exitCode' = [exitCode EXCEPT ![i] = code]
  /\ UNCHANGED <<payload, stdin, out, err, nData, promise, timer, work, sigGroup, sigChild,
                 dirs, call, uncaught, loadVars>>

\* The code the 'close' event carries.
closeCode(i) == IF child[i] = "killed" THEN NullCode ELSE exitCode[i]

\* onClose removing the whole run root, every invocation's directory with
\* it, instead of work.
onCloseRmRunRoot(i) ==
  /\ child[i] \in {"exited", "killed", "errored"}
  /\ child' = [child EXCEPT ![i] = "closed"]
  /\ exitCode' = [exitCode EXCEPT ![i] = closeCode(i)]
  /\ timer' = [timer EXCEPT ![i] = clearTimeout(@)]
  /\ dirs' = {}
  /\ promise' = [promise EXCEPT ![i] = closeOutcome(@, closeCode(i), out[i], err[i])]
  /\ call' = [call EXCEPT ![i].extractions = @ + IF closeCode(i) = Code(0) THEN 1 ELSE 0]
  /\ UNCHANGED <<payload, stdin, out, err, nData, work, sigGroup, sigChild, uncaught, loadVars>>

\* onClose without the rmSync(work).
onCloseNoRm(i) ==
  /\ child[i] \in {"exited", "killed", "errored"}
  /\ child' = [child EXCEPT ![i] = "closed"]
  /\ exitCode' = [exitCode EXCEPT ![i] = closeCode(i)]
  /\ timer' = [timer EXCEPT ![i] = clearTimeout(@)]
  /\ promise' = [promise EXCEPT ![i] = closeOutcome(@, closeCode(i), out[i], err[i])]
  /\ call' = [call EXCEPT ![i].extractions = @ + IF closeCode(i) = Code(0) THEN 1 ELSE 0]
  /\ UNCHANGED <<payload, stdin, out, err, nData, work, sigGroup, sigChild, dirs, uncaught, loadVars>>

\* child.on('close')
onClose(i) ==
  /\ child[i] \in {"exited", "killed", "errored"}
  /\ child' = [child EXCEPT ![i] = "closed"]
  /\ exitCode' = [exitCode EXCEPT ![i] = closeCode(i)]
  /\ timer' = [timer EXCEPT ![i] = clearTimeout(@)]
  /\ dirs' = dirs \ {work[i]}
  /\ promise' = [promise EXCEPT ![i] = closeOutcome(@, closeCode(i), out[i], err[i])]
  /\ call' = [call EXCEPT ![i].extractions = @ + IF closeCode(i) = Code(0) THEN 1 ELSE 0]
  /\ UNCHANGED <<payload, stdin, out, err, nData, work, sigGroup, sigChild, uncaught, loadVars>>

(***************************************************************************)
(* The executor on its own: one loaded tool, invoked.                      *)
(***************************************************************************)
InitRunVars ==
  /\ payload = [i \in Invs |-> JNull]
  /\ child = [i \in Invs |-> "none"]
  /\ exitCode = [i \in Invs |-> NullCode]
  /\ stdin = [i \in Invs |-> <<>>]
  /\ out = [i \in Invs |-> <<>>]
  /\ err = [i \in Invs |-> <<>>]
  /\ nData = [i \in Invs |-> 0]
  /\ promise = [i \in Invs |-> NoPromise]
  /\ timer = [i \in Invs |-> "none"]
  /\ work = [i \in Invs |-> NoDir]
  /\ sigGroup = [i \in Invs |-> FALSE]
  /\ sigChild = [i \in Invs |-> FALSE]
  /\ dirs = {}
  /\ call = [i \in Invs |-> NoCall]
  /\ uncaught = {}

\* The names used below: package @zk/x, its directory spellings, and k/x,
\* the package whose name is zk/x without its first character.
SCOPED_X == <<"@", "z", "k", "/", "x">>
PLAIN_X == <<"z", "k", "/", "x">>
DASH_X == <<"z", "k", "-", "x">>
CUT_X == <<"k", "/", "x">>
V100 == <<"1", ".", "0", ".", "0">>
V200 == <<"2", ".", "0", ".", "0">>

\* A manifest that runs node with a 30 s deadline and declares no runtime.
PlainManifest(dir, ver) == Manifest(dir, ver, NODE, <<30000>>, NoEnv, <<>>)

HomeTools == toolsUnder(<<"h">>)
ProjectTools == toolsUnder(projectRoot)
FullEnv == [AGENTPM_TOOL_DIR |-> <<"e">>, HOME |-> <<"h">>]

\* @zk/x@1.0.0 installed in the project's tool directory.
InstalledOnce(man) ==
  {[base |-> ProjectTools, dir |-> SCOPED_X, ver |-> V100, man |-> man]}

\* A tool as load returns it for a manifest whose command is node.
LoadedTool(ms) ==
  func(Tool(NODE, ms, Hit(ProjectTools, SCOPED_X, V100)),
       entryForSpawn(PlainManifest(SCOPED_X, V100), NODE), NoEnv)

\* The deadlines tried: the default, and a manifest's 30 s.
TimeoutChoices == {DEFAULT_TIMEOUT_MS, 30000}

\* What the child may write in one chunk.
BOOM == Txt(<<"b", "o", "o", "m">>)
OBJ_A1 == Txt(<<"{", QT, "a", QT, ":", "1", "}">>)
OutChunks == {Txt(<<"x">>), OBJ_A1, Txt(<<"{">>), <<Run("x", limit)>>,
              <<Run("E2", limit \div 2)>>}
ErrChunks == {BOOM, Cat(BOOM, <<Run("x", TAIL_CHARS)>>), <<Run("x", limit)>>}
ExitCodes == {Code(0), Code(2), NullCode}
RunInvs == {"i1"}

InitRun ==
  /\ fs = InstalledOnce(PlainManifest(SCOPED_X, V100))
  /\ procEnv = FullEnv
  /\ executables = {NODE}
  /\ req = NoReq
  /\ match = NoMatch
  /\ tool \in {LoadedTool(ms) : ms \in TimeoutChoices}
  /\ loadErr = NoLoadError
  /\ cwd = projectRoot
  /\ ret = Loaded(tool, req.options)
  /\ nChecks = 1
  /\ InitRunVars

NextRun ==
  \E i \in RunInvs :
    \/ \E d \in RunNames, s \in BOOLEAN : spawnOnce(i, JObj(<<>>), d, s)
    \/ \E c \in OutChunks : onStdoutData(i, c)
    \/ \E c \in ErrChunks : onStderrData(i, c)
    \/ onTimeout(i)
    \/ onError(i)
    \/ \E code \in ExitCodes : childExit(i, code)
    \/ onClose(i)

vars == <<loadVars, runVars>>

SpecRun == InitRun /\ [][NextRun]_vars

\* The executor when the write of the payload may fail.  (The other
\* specifications take the write to succeed.)  Nothing runs in a process
\* that an uncaught exception has ended.
NextPipe ==
  /\ uncaught = {}
  /\ \/ NextRun
     \/ \E i \in RunInvs : onStdinError(i)

SpecPipe == InitRun /\ [][NextPipe]_vars

\* The event loop delivers a due timer, a pending 'error' and the 'close' of
\* a child that has ended; the child itself need never end.
FairSpecRun ==
  /\ SpecRun
  /\ \A i \in RunInvs : WF_vars(onTimeout(i)) /\ WF_vars(onError(i)) /\ WF_vars(onClose(i))

(***************************************************************************)
(* Two invocations of the loaded tool, interleaved.                        *)
(***************************************************************************)
PairNames == {"run-a", "run-b", "run-c"}
PairChunks == {OBJ_A1, <<Run("x", limit)>>}

NextPair ==
  \E i \in Invs :
    \/ \E d \in PairNames, s \in BOOLEAN : spawnOnce(i, JObj(<<>>), d, s)
    \/ \E c \in PairChunks : onStdoutData(i, c)
    \/ onTimeout(i)
    \/ onError(i)
    \/ \E code \in {Code(0), Code(2)} : childExit(i, code)
    \/ onClose(i)

SpecPair == InitRun /\ [][NextPair]_vars

(***************************************************************************)
(* The executor driving an echo tool: the child reads its standard input,  *)
(* prints noise lines, then JSON.stringify(JSON.parse(stdin)), and exits   *)
(* with code 0.                                                            *)
(***************************************************************************)
KeyA == Txt(<<"a">>)
KeyB == Txt(<<"b">>)
ONE == JNum(<<"1">>)

EchoPayloads ==
  {JNull, JTrue, ONE, JStr(Txt(<<"a">>)), JStr(Txt(<<"{">>)),
   JArr(<<>>), JArr(<<ONE>>), JArr(<<JObj(<<>>)>>),
   JObj(<<>>),
   JObj(<<Member(KeyA, ONE)>>),
   JObj(<<Member(KeyA, JStr(Txt(<<"x", "y">>)))>>),
   JObj(<<Member(KeyA, JStr(Txt(<<"{">>)))>>),
   JObj(<<Member(KeyA, JStr(Txt(<<"}">>)))>>),
   JObj(<<Member(KeyA, JObj(<<>>))>>),
   JObj(<<Member(KeyA, JObj(<<Member(KeyB, ONE)>>))>>),
   JObj(<<Member(KeyA, JArr(<<ONE>>)), Member(KeyB, JNull)>>)}

\* Noise: whole lines that come before the JSON text.
NoiseLines ==
  {<<>>,
   Txt(<<"n", "o", "i", "s", "e", "\n">>),
   Txt(<<"{", "\n">>),
   Txt(<<"}", "\n">>),
   Txt(<<"{", QT, "a", QT, ":", "1", "}", "\n">>),
   Txt(<<"[", "1", "]", "\n", "o", "k", "\n">>)}

\* The tool's output: the noise, then the input parsed and printed again.
echoTool(i, noise) ==
  /\ child[i] = "running"
  /\ nData[i] = 0
  /\ parse(stdin[i]).ok
  /\ onStdoutData(i, Cat(noise, stringify(parse(stdin[i]).v)))

\* The tool's process.exit(0) once it has written its output.
echoExit(i) ==
  /\ nData[i] = 1
  /\ childExit(i, Code(0))

NextEcho ==
  \E i \in RunInvs :
    \/ \E v \in EchoPayloads, d \in RunNames : spawnOnce(i, v, d, TRUE)
    \/ \E n \in NoiseLines : echoTool(i, n)
    \/ echoExit(i)
    \/ onClose(i)

SpecEcho == InitRun /\ [][NextEcho]_vars

(***************************************************************************)
(* Locating: version directories appear under the search roots, then tools *)
(* are loaded by specifier.                                                *)
(***************************************************************************)
Bases == {<<"o">>, <<"e">>, ProjectTools, HomeTools}
NameDirs == {SCOPED_X, DASH_X, CUT_X}
Versions == {V100, V200}

AT == <<"@">>
CARET_1 == <<"^">> \o V100
GE_1 == <<">", "=">> \o V100
LocateTokens == {V100, LATEST, CARET_1, GE_1}
LocateSpecs == {n \o AT \o t : n \in {SCOPED_X, PLAIN_X}, t \in LocateTokens}
LocateOptions == {Options(o, NoEnv, <<>>) : o \in {<<>>, <<"o">>}}

InitLocate ==
  /\ fs = {}
  /\ procEnv = FullEnv
  /\ executables = {NODE}
  /\ req = NoReq
  /\ match = NoMatch
  /\ tool = NoTool
  /\ loadErr = NoLoadError
  /\ cwd = projectRoot
  /\ ret = NoLoaded
  /\ nChecks = 0
  /\ InitRunVars

\* The directories are laid out first; then one load is made.
NextLocate ==
  \/ \E b \in Bases, d \in NameDirs, v \in Versions :
       \E m \in {PlainManifest(d, v), NoManifest} : ~req.called /\ install(b, d, v, m)
  \/ \E spec \in LocateSpecs, o \in LocateOptions : ~req.called /\ load(spec, o)

SpecLocate == InitLocate /\ [][NextLocate]_vars

(***************************************************************************)
(* Loading one installed tool whose manifest, and the environments around  *)
(* it, vary.                                                               *)
(***************************************************************************)
BASH == <<"b", "a", "s", "h">>
USR_BIN_NODE == <<"/", "u", "s", "r", "/", "b", "i", "n", "/", "n", "o", "d", "e">>
NODE_EXE == <<"N", "o", "d", "e", ".", "E", "X", "E">>
PYTHON311 == PYTHON3 \o <<".", "1", "1">>
PYTHON3EVIL == PYTHON3 \o <<"e", "v", "i", "l">>

ManifestCommands ==
  {BASH, NODE, NODEJS, PYTHON, PYTHON3, PYTHON311, USR_BIN_NODE, NODE_EXE, PYTHON3EVIL}
RuntimeChoices == {<<>>, <<NODE>>, <<PYTHON>>, <<PYTHON3>>, <<NODEJS>>}

\* One layer of environment: nothing, or one of the override variables.
EnvLayers ==
  {NoEnv,
   [AGENTPM_NODE |-> USR_BIN_NODE],
   [AGENTPM_NODE |-> <<>>],
   [AGENTPM_NODE |-> BASH],
   [AGENTPM_PYTHON |-> PYTHON311]}

SPEC_X == SCOPED_X \o AT \o V100

InitLoad ==
  /\ \E c \in ManifestCommands, r \in RuntimeChoices, e \in EnvLayers :
       fs = InstalledOnce(Manifest(SCOPED_X, V100, c, <<>>, e, r))
  /\ procEnv \in EnvLayers
  /\ executables \in {ManifestCommands, {NODE, PYTHON311}}
  /\ req = NoReq
  /\ match = NoMatch
  /\ tool = NoTool
  /\ loadErr = NoLoadError
  /\ cwd = projectRoot
  /\ ret = NoLoaded
  /\ nChecks = 0
  /\ InitRunVars

NextLoad == ~req.called /\ \E e \in EnvLayers : load(SPEC_X, Options(<<>>, e, <<>>))

SpecLoad == InitLoad /\ [][NextLoad]_vars

\* The same loads, the callable then called.
NextLoadSpawn ==
  \/ NextLoad
  \/ \E i \in RunInvs, d \in RunNames, s \in BOOLEAN : spawnOnce(i, JObj(<<>>), d, s)

SpecLoadSpawn == InitLoad /\ [][NextLoadSpawn]_vars

(***************************************************************************)
(* A tool loaded and then invoked: the manifest, the environments, the     *)
(* options and the directory the calling process runs in vary.             *)
(***************************************************************************)
BIN == <<"/", "b", "i", "n">>
\* The manifest's and the caller's env layers: both define FOO.
EntryEnv == [HOME |-> <<"m">>, FOO |-> <<"m">>]
CallerEnv == [FOO |-> <<"c">>, PATH |-> <<"c">>, LANG |-> <<"c">>]

NodeManifest == Manifest(SCOPED_X, V100, NODE, <<>>, NoEnv, <<>>)
CallManifests ==
  {NodeManifest,
   [NodeManifest EXCEPT !.timeout_ms = <<30000>>, !.env = EntryEnv, !.runtime = <<NODE>>,
                        !.description = <<"d">>, !.inputs = <<"i">>, !.outputs = <<"o">>],
   [NodeManifest EXCEPT !.cwd = <<".", "sub">>],
   [NodeManifest EXCEPT !.cwd = <<"opt", "t">>, !.env = [TMPDIR |-> <<"m">>]],
   [NodeManifest EXCEPT !.command = BASH],
   [NodeManifest EXCEPT !.command = PYTHON, !.runtime = <<NODE>>],
   [NodeManifest EXCEPT !.command = NODEJS],
   [NodeManifest EXCEPT !.command = <<>>]}

ProcessEnvs == {[PATH |-> BIN], [PATH |-> BIN, LANG |-> <<"C">>], [LANG |-> <<>>]}
ProcessCwds == {projectRoot, projectRoot \o <<"app">>}

CallOptions ==
  {[Options(<<>>, e, t) EXCEPT !.withMeta = w] :
     e \in {NoEnv, CallerEnv}, t \in {<<>>, <<0>>, <<500>>}, w \in {<<>>, <<TRUE>>, <<FALSE>>}}

InitCall ==
  /\ fs \in {InstalledOnce(m) : m \in CallManifests}
  /\ procEnv \in ProcessEnvs
  /\ executables = {NODE, PYTHON, BASH}
  /\ req = NoReq
  /\ match = NoMatch
  /\ tool = NoTool
  /\ loadErr = NoLoadError
  /\ cwd \in ProcessCwds
  /\ ret = NoLoaded
  /\ nChecks = 0
  /\ InitRunVars

\* One load; then the callable, if one was returned, is called.
NextCall ==
  \/ \E o \in CallOptions : ~req.called /\ load(SPEC_X, o)
  \/ \E i \in RunInvs :
       \/ \E d \in RunNames, s \in BOOLEAN : spawnOnce(i, JObj(<<>>), d, s)
       \/ onStdoutData(i, OBJ_A1)
       \/ onTimeout(i)
       \/ onError(i)
       \/ \E code \in {Code(0), Code(2)} : childExit(i, code)
       \/ onClose(i)

SpecCall == InitCall /\ [][NextCall]_vars

(***************************************************************************)
(* A tool loaded and called twice while the calling program changes its    *)
(* environment and the manifest on disk is rewritten.                      *)
(***************************************************************************)
T_JS == <<"t", ".", "j", "s">>
FLAG_512 == MAX_OLD_SPACE_SIZE \o <<"=", "5", "1", "2">>
SECRET_M == [SECRET |-> <<"m">>]
TOKEN_C == [TOKEN |-> <<"c">>]

DriftCommands == {NODE, NODEJS, NODE_EXE, PYTHON, PYTHON311}
DriftArgs == {<<>>, <<T_JS>>, <<FLAG_512, T_JS>>, <<T_JS, MAX_OLD_SPACE_SIZE>>}
DriftManifests ==
  {[NodeManifest EXCEPT !.command = c, !.args = a, !.env = e] :
     c \in DriftCommands, a \in DriftArgs, e \in {NoEnv, SECRET_M}}

\* The parent's environment: bare, or with PATH, LANG, its own HOME, a
\* secret and an interpreter override.
ParentEnvs ==
  {[PATH |-> BIN],
   [PATH |-> BIN, LANG |-> <<"C">>, HOME |-> <<"h">>, SECRET |-> <<"s">>,
    AGENTPM_NODE |-> USR_BIN_NODE, AGENTPM_TOOL_DIR |-> <<"e">>]}

InitDrift ==
  /\ fs \in {InstalledOnce(m) : m \in DriftManifests}
  /\ procEnv \in ParentEnvs
  /\ executables = DriftCommands \cup {USR_BIN_NODE}
  /\ req = NoReq
  /\ match = NoMatch
  /\ tool = NoTool
  /\ loadErr = NoLoadError
  /\ cwd = projectRoot
  /\ ret = NoLoaded
  /\ nChecks = 0
  /\ InitRunVars

\* One load; afterwards the environment and the manifest may change, and
\* the callable is called up to twice.
NextDrift ==
  \/ \E e \in {NoEnv, TOKEN_C} : ~req.called /\ load(SPEC_X, Options(<<>>, e, <<>>))
  \/ req.called /\ \E k \in {"AGENTPM_NODE", "AGENTPM_PYTHON", "SECRET"} : setenv(k, PYTHON)
  \/ req.called /\ \E m \in {[NodeManifest EXCEPT !.command = PYTHON],
                              [NodeManifest EXCEPT !.args = <<T_JS>>]} : rewriteManifest(m)
  \/ spawnOnce("i1", JObj(<<>>), "run-a", TRUE)
  \/ spawnOnce("i2", JObj(<<>>), "run-b", TRUE)

SpecDrift == InitDrift /\ [][NextDrift]_vars

(***************************************************************************)
(* The exported isInterpreterMatch, called on its own.                     *)
(***************************************************************************)
InterpreterNames ==
  {NODE, NODEJS, PYTHON, PYTHON3, PYTHON311, BASH,
   <<"N", "o", "d", "e">>, <<"N", "O", "D", "E", "J", "S">>,
   <<"P", "y", "t", "h", "o", "n">>, <<"P", "Y", "T", "H", "O", "N", "3">>,
   <<"r", "u", "b", "y">>}

NextMatch == \E r \in InterpreterNames, c \in InterpreterNames : callIsInterpreterMatch(r, c)

SpecMatch == InitLocate /\ [][NextMatch]_vars

(***************************************************************************)
(* Specifier forms: a few version directories appear, then one load is     *)
(* made with a well-formed or an ill-formed specifier.                     *)
(***************************************************************************)
FOO == <<"f", "o", "o">>
NEXT_TAG == <<"n", "e", "x", "t">>
LATEST_CAP == <<"L", "a", "t", "e", "s", "t">>
X_AT_V100 == SCOPED_X \o AT \o V100

FormBases == {ProjectTools, HomeTools}
FormDirs == {SCOPED_X, X_AT_V100}
FormVersions == {V100, V200, FOO}
FormSpecs ==
  {PLAIN_X, SCOPED_X, AT, SCOPED_X \o AT,
   SCOPED_X \o AT \o V100, SCOPED_X \o AT \o FOO, SCOPED_X \o AT \o NEXT_TAG,
   SCOPED_X \o AT \o LATEST_CAP, SCOPED_X \o AT \o CARET_1, PLAIN_X \o AT \o FOO,
   X_AT_V100 \o AT \o V200, SCOPED_X \o AT \o AT \o V100}

NextForm ==
  \/ \E b \in FormBases, d \in FormDirs, v \in FormVersions :
       \E m \in {PlainManifest(d, v), NoManifest} : ~req.called /\ install(b, d, v, m)
  \/ \E spec \in FormSpecs, o \in LocateOptions : ~req.called /\ load(spec, o)

SpecForm == InitLocate /\ [][NextForm]_vars

(***************************************************************************)
(* Claims about the executor.                                              *)
(***************************************************************************)
\* An exit status of a process that ran (0..255), as opposed to null or the
\* negative errno of a failed spawn.
IsExitStatus(code) == code # NullCode /\ code[1] >= 0

Breached(i) == byteLength(out[i]) + byteLength(err[i]) > 10485760

\* `tail` is the last min(4000, length) characters of text t.
IsTailOf(tail, t) ==
  /\ TLen(tail) = (IF TLen(t) <= 4000 THEN TLen(t) ELSE 4000)
  /\ Cat(TPrefix(t, TLen(t) - TLen(tail)), tail) = t

\* C7: a child that closes with a non-zero exit code N, with no timeout and
\* no output-limit breach before, rejects the invocation with the exit-code
\* error for N carrying exactly the last (at most 4000) characters of the
\* captured error stream; in particular it never resolves, whatever stdout
\* holds.
C7_NonZeroExitRejects ==
  \A i \in Invs :
    (/\ child[i] = "closed"
     /\ IsExitStatus(exitCode[i]) /\ exitCode[i] # Code(0)
     /\ timer[i] # "fired" /\ ~Breached(i))
    => /\ promise[i].st = "rejected"
       /\ promise[i].e.kind = "exit"
       /\ promise[i].e.code = exitCode[i]
       /\ IsTailOf(promise[i].e.tail, err[i])

\* C7 witness: exit code 2, more than 4000 characters of stderr, and a valid
\* JSON object on stdout.
C7_Witness ==
  \E i \in Invs :
    /\ child[i] = "closed" /\ exitCode[i] = Code(2)
    /\ timer[i] # "fired" /\ ~Breached(i)
    /\ TLen(err[i]) > 4000
    /\ extractLastJsonObject(out[i]).ok
    /\ promise[i].e.kind = "exit"

\* C8: once the deadline timer has fired, the process group and the child
\* have been sent SIGKILL and the invocation is rejected with the timeout
\* error naming timeoutMs, in every later state: no result is delivered.
C8_TimeoutIsFinal ==
  \A i \in Invs :
    timer[i] = "fired"
    => /\ sigGroup[i] /\ sigChild[i]
       /\ promise[i].st = "rejected"
       /\ promise[i].e.kind = "timeout"
       /\ promise[i].e.ms = tool.timeoutMs

\* C8 witness: the timer fired, and the child then closed with exit code 0
\* and a valid JSON object on stdout.
C8_Witness ==
  \E i \in Invs :
    /\ timer[i] = "fired"
    /\ child[i] = "closed" /\ exitCode[i] = Code(0)
    /\ extractLastJsonObject(out[i]).ok
    /\ promise[i].st = "rejected"

\* C9: when the captured streams together exceed 10 MiB and the deadline has
\* not fired, the group has been killed, the timer is cancelled and the
\* invocation is rejected with the output-limit error, in every later state.
C9_OutputLimitIsFinal ==
  \A i \in Invs :
    (Breached(i) /\ timer[i] # "fired")
    => /\ sigGroup[i]
       /\ timer[i] = "cleared"
       /\ promise[i].st = "rejected"
       /\ promise[i].e.kind = "limit"

\* C9 witness: the limit was breached, and the child has since closed.
C9_Witness ==
  \E i \in Invs :
    /\ Breached(i) /\ timer[i] = "cleared"
    /\ child[i] = "closed"
    /\ promise[i].e.kind = "limit"

\* C10: a run directory that exists is eventually removed.
C10_RunDirRemoved ==
  \A i \in Invs : (work[i] # NoDir /\ work[i] \in dirs) ~> (work[i] \notin dirs)

\* C10 witness: a timed-out invocation whose run directory is gone.
C10_Witness ==
  \E i \in Invs :
    /\ work[i] # NoDir /\ work[i] \notin dirs
    /\ timer[i] = "fired"

(***************************************************************************)
(* Claims about extraction.                                                *)
(***************************************************************************)
\* The standard output is noise lines followed by the echo of the payload.
Echoed(i) == \E n \in NoiseLines : out[i] = Cat(n, stringify(payload[i]))

\* C1: an invocation whose tool printed noise lines and then the
\* JSON.stringify of the payload, and exited with code 0, resolves with a
\* value equal to the payload.
C1_EchoRoundTrip ==
  \A i \in Invs :
    (child[i] = "closed" /\ exitCode[i] = Code(0) /\ Echoed(i))
    => (promise[i].st = "resolved" /\ promise[i].val = payload[i])

\* C1, where it does hold: a payload that is an object with no '{' inside
\* it is delivered back.
C1_FlatObjectDelivered ==
  \E i \in Invs :
    /\ child[i] = "closed" /\ exitCode[i] = Code(0) /\ Echoed(i)
    /\ payload[i] = JObj(<<Member(KeyA, JArr(<<ONE>>)), Member(KeyB, JNull)>>)
    /\ promise[i].st = "resolved" /\ promise[i].val = payload[i]

(***************************************************************************)
(* Claims about the load-time checks.                                      *)
(***************************************************************************)
\* The manifest of the one installed tool.
TheManifest == (CHOOSE e \in fs : TRUE).man

\* The whitelist: node, nodejs, python, python3, and names that begin with
\* python3 (python3.11).
Whitelisted(cmd) ==
  LET canon == canonicalInterpreter(cmd) IN
  canon \in {NODE, NODEJS, PYTHON, PYTHON3} \/ startsWith(canon, PYTHON3)

\* The value of variable k where the caller's env overrides the manifest's
\* env, and that the process environment.
Layered(k) ==
  IF k \in DOMAIN req.options.env THEN req.options.env[k]
  ELSE IF k \in DOMAIN TheManifest.env THEN TheManifest.env[k]
  ELSE IF k \in DOMAIN procEnv THEN procEnv[k]
  ELSE <<>>

\* The override variable the runtime hint selects; "" when there is none.
HintVariable ==
  IF TheManifest.runtime = <<NODE>> THEN "AGENTPM_NODE"
  ELSE IF TheManifest.runtime = <<PYTHON>> THEN "AGENTPM_PYTHON"
  ELSE ""

HintOverride == IF HintVariable = "" THEN <<>> ELSE Layered(HintVariable)

RejectedNaming(cmd) ==
  /\ ~tool.loaded
  /\ loadErr.kind = "unsupported"
  /\ loadErr.what = cmd

FamilyOfName(n) ==
  IF n \in {NODE, NODEJS} THEN "node"
  ELSE IF n \in {PYTHON, PYTHON3} THEN "python"
  ELSE ""

\* C3: isInterpreterMatch is true for equal names (ignoring case), true for
\* python/python3 and node/nodejs in either argument order, and false for
\* names of different families.
C3_MatchBothOrders ==
  match.called
  => LET r == toLowerCase(match.runtime)
         c == toLowerCase(match.command)
     IN /\ r = c => match.result
        /\ {r, c} \in {{PYTHON, PYTHON3}, {NODE, NODEJS}} => match.result
        /\ (FamilyOfName(r) # FamilyOfName(c)) => ~match.result

(***************************************************************************)
(* Claims about locating.                                                  *)
(***************************************************************************)
\* The version token of the specifier asked for: what follows its last '@'.
TokenAsked == trim(sliceRest(req.spec, lastIndexOfChar(req.spec, "@") + 1))

\* The scope/name the specifier asked for denotes: what precedes its last
\* '@', without a leading '@' scope marker.
NameAsked ==
  LET raw == slice(req.spec, 0, lastIndexOfChar(req.spec, "@")) IN
  IF raw[1] = "@" THEN Tail(raw) ELSE raw

\* The name resolveToolRoot searches under.
NameSearched == slice(req.spec, 1, lastIndexOfChar(req.spec, "@"))

\* The directory spellings of a scope/name.
SpellingsOf(name) ==
  LET scope == split(name)[1]
      pkg == split(name)[2]
  IN {<<"@">> \o scope \o <<"/">> \o pkg, scope \o <<"/">> \o pkg,
      scope \o <<"_", "_">> \o pkg, scope \o <<"-">> \o pkg}

\* The search roots of the load asked for, highest priority first.
RootsAsked == candidateRoots(req.options.toolDirOverride)

\* Root k holds a manifest for name at version ver.
RootHolds(k, name, ver) ==
  \E e \in fs : /\ e.base = RootsAsked[k] /\ e.dir \in SpellingsOf(name)
                /\ e.ver = ver /\ e.man.present

\* The first position in a non-empty set of root positions.
First(K) == CHOOSE k \in K : \A m \in K : k <= m

\* C4: for an exact-version specifier, when several roots hold a manifest
\* for that name and version, load returns the manifest of the first of
\* them in the order override, AGENTPM_TOOL_DIR, project tools, home tools.
C4_ExactTakesFirstRoot ==
  LET K == {k \in 1..Len(RootsAsked) : RootHolds(k, NameAsked, TokenAsked)} IN
  (req.called /\ IsXYZ(TokenAsked) /\ Cardinality(K) >= 2)
  => /\ tool.loaded
     /\ tool.root.base = RootsAsked[First(K)]
     /\ tool.root.dir \in SpellingsOf(NameAsked)
     /\ tool.root.ver = TokenAsked

\* C5: for an exact-version specifier, with or without a leading '@', whose
\* manifest is installed under some search root in one of the directory
\* spellings of its scope/name, load succeeds and returns a manifest of that
\* scope/name and version.
C5_FoundWithOrWithoutAt ==
  (/\ req.called /\ IsXYZ(TokenAsked)
   /\ \E k \in 1..Len(RootsAsked) : RootHolds(k, NameAsked, TokenAsked))
  => /\ tool.loaded
     /\ tool.root.dir \in SpellingsOf(NameAsked)
     /\ tool.root.ver = TokenAsked
     /\ hasManifest(tool.root.base, tool.root.dir, tool.root.ver)

\* The versions that count for the load asked for in root k: the version
\* directories of the package searched that hold a manifest and satisfy
\* the token.
Eligible(k) ==
  {e.ver : e \in {f \in fs : /\ f.base = RootsAsked[k]
                             /\ f.dir \in SpellingsOf(NameSearched)
                             /\ f.man.present
                             /\ (toLowerCase(TokenAsked) = LATEST
                                   \/ semverSatisfies(f.ver, TokenAsked))}}

Settled(i) == promise[i].st \in {"resolved", "rejected"}

\* C11: whenever the promise of an invocation has settled, for whatever
\* reason, its run directory is no longer on disk.
C11_SettledMeansRemoved ==
  \A i \in Invs : Settled(i) => work[i] \notin dirs

\* C11, where it does hold: a promise settled by the close handler or by
\* the error handler finds the run directory removed.
C11_RemovedWhenClosed ==
  \E i \in Invs : child[i] = "closed" /\ promise[i].st = "resolved" /\ work[i] \notin dirs

\* What belongs to invocation i: its child, timer, buffers, signals, promise
\* and bookkeeping, and whether its run directory is on disk.
Own(i) == <<child[i], exitCode[i], timer[i], out[i], err[i], nData[i], promise[i],
            sigGroup[i], sigChild[i], work[i], call[i], work[i] \in dirs>>

\* C12: two invocations that have both started have different run
\* directories, and no step of one invocation (its timeout, its output-limit
\* kill, its cleanup, any of its events) changes anything that belongs to
\* the other: child, timer, buffers, outcome, run directory.
C12_InvocationsArePrivate ==
  /\ [](\A i \in Invs : \A j \in Invs \ {i} :
          (child[i] # "none" /\ child[j] # "none") => work[i] # work[j])
  /\ [][\A i \in Invs : \A j \in Invs \ {i} : (Own(i)' # Own(i)) => (Own(j)' = Own(j))]_vars

\* C12 witness: one invocation was killed by its timeout and has been
\* cleaned up while the other, started before that, resolved afterwards.
C12_Witness ==
  /\ promise["i1"].st = "rejected" /\ promise["i1"].e.kind = "timeout"
  /\ child["i1"] = "closed" /\ work["i1"] \notin dirs
  /\ promise["i2"].st = "resolved" /\ child["i2"] = "closed"
  /\ ~sigGroup["i2"] /\ ~sigChild["i2"]

(***************************************************************************)
(* Claims about a tool that is loaded and then called.                     *)
(***************************************************************************)
NeverSpawned ==
  /\ dirs = {}
  /\ \A i \in Invs : child[i] = "none" /\ call[i].spawns = 0 /\ work[i] = NoDir

\* C13 as stated: the checks have run exactly once for a load call (one that
\* got to them), a failed load spawns nothing, and every finished call of
\* the callable has spawned one process and run one extraction.
C13_OncePerLoadOncePerCall ==
  /\ (req.called /\ TheManifest.command # <<>>) => nChecks = 1
  /\ loadErr # NoLoadError => NeverSpawned
  /\ \A i \in Invs : child[i] = "closed" => call[i].spawns = 1 /\ call[i].extractions = 1

\* C13: the interpreter resolution and the three checks run once in a load
\* that has located a manifest with an entrypoint.command, and never
\* otherwise (not in a call of the callable); a load that fails returns no
\* callable, so nothing is spawned and no run directory made; every call of
\* the callable spawns exactly one process, and runs the extraction once if
\* the child closes with exit code 0 and not at all otherwise.
C13_ChecksAtLoadOnly ==
  /\ nChecks = IF req.called /\ TheManifest.command # <<>> THEN 1 ELSE 0
  /\ loadErr # NoLoadError => ~tool.loaded /\ NeverSpawned
  /\ \A i \in Invs :
       /\ child[i] # "none" => tool.loaded /\ loadErr = NoLoadError /\ call[i].spawns = 1
       /\ call[i].extractions = IF child[i] = "closed" /\ exitCode[i] = Code(0) THEN 1 ELSE 0

\* C13 witness: a loaded tool was called, its child exited with code 2 and
\* closed: one check run, one spawn, no extraction.
C13_Witness ==
  /\ req.called /\ tool.loaded /\ nChecks = 1
  /\ child["i1"] = "closed" /\ exitCode["i1"] = Code(2)
  /\ call["i1"].spawns = 1 /\ call["i1"].extractions = 0

\* The deadline the claim names for the load that was made.
DeadlineAsked ==
  IF req.options.timeoutMs # <<>> THEN req.options.timeoutMs[1]
  ELSE IF TheManifest.timeout_ms # <<>> THEN TheManifest.timeout_ms[1]
  ELSE 120000

\* C14: the deadline every invocation of a loaded tool arms its timer with,
\* and names in its timeout error, is options.timeoutMs when the caller gave
\* it, else the manifest's entrypoint.timeout_ms when declared, else
\* 120000 ms.
C14_DeadlineByPrecedence ==
  \A i \in Invs :
    child[i] # "none"
    => /\ call[i].timeoutMs = <<DeadlineAsked>>
       /\ (promise[i].st = "rejected" /\ promise[i].e.kind = "timeout")
          => promise[i].e.ms = DeadlineAsked

\* C14 witness: the caller's timeoutMs of 0 wins over the manifest's 30000,
\* and the invocation timed out on it.
C14_Witness ==
  /\ req.options.timeoutMs = <<0>> /\ TheManifest.timeout_ms = <<30000>>
  /\ call["i1"].timeoutMs = <<0>>
  /\ promise["i1"].st = "rejected" /\ promise["i1"].e.kind = "timeout"
  /\ promise["i1"].e.ms = 0

\* C15: a load that succeeds returns the pair { func, meta } exactly when
\* options.withMeta is true, and the bare callable otherwise; the meta of the
\* pair has the located manifest's name, version, description, inputs and
\* outputs.
C15_PairIffWithMeta ==
  (req.called /\ tool.loaded)
  => /\ ret.shape = IF req.options.withMeta = <<TRUE>> THEN "pair" ELSE "func"
     /\ ret.shape = "pair"
        => /\ ret.meta.name = TheManifest.name
           /\ ret.meta.version = TheManifest.version
           /\ ret.meta.description = TheManifest.description
           /\ ret.meta.inputs = TheManifest.inputs
           /\ ret.meta.outputs = TheManifest.outputs

\* C15 witness: withMeta: true on a manifest that declares a description,
\* inputs and outputs.
C15_Witness ==
  /\ req.called /\ tool.loaded /\ req.options.withMeta = <<TRUE>>
  /\ ret.shape = "pair"
  /\ ret.meta = [name |-> SCOPED_X, version |-> V100, description |-> <<"d">>,
                 inputs |-> <<"i">>, outputs |-> <<"o">>]

(***************************************************************************)
(* Claims about the whitelist and the runtime check.                       *)
(***************************************************************************)
\* The command load checks and runs for the load that was made.
ResolvedAsked ==
  resolveInterpreterCommand(TheManifest.command, TheManifest.env, req.options.env,
                            TheManifest.runtime)

\* ".<minor>": a dot and then digits only.
IsMinorSuffix(s) == Len(s) >= 2 /\ s[1] = "." /\ \A k \in 2..Len(s) : IsDigit(s[k])

\* node, nodejs, python, python3, or python3.<minor>.
AllowedName(canon) ==
  \/ canon \in {NODE, NODEJS, PYTHON, PYTHON3}
  \/ startsWith(canon, PYTHON3) /\ IsMinorSuffix(sliceRest(canon, 7))

\* C16: a resolved command whose canonical name is none of node, nodejs,
\* python, python3 and not of the form python3.<minor> makes load fail with
\* the unsupported-interpreter error naming the command.
C16_OnlyAllowedNamesPass ==
  (req.called /\ ~AllowedName(canonicalInterpreter(ResolvedAsked)))
  => RejectedNaming(ResolvedAsked)

\* The family of a command: node for node and nodejs; python for python,
\* python3 and python3.<minor>; by its canonical name, so also when it is
\* given as an absolute path.
FamilyOfCommand(cmd) ==
  LET canon == canonicalInterpreter(cmd) IN
  IF canon \in {NODE, NODEJS} THEN "node"
  ELSE IF canon \in {PYTHON, PYTHON3} \/ (startsWith(canon, PYTHON3)
                                           /\ IsMinorSuffix(sliceRest(canon, 7)))
  THEN "python"
  ELSE ""

\* C17: when the manifest declares runtime.type and the whitelist and
\* availability checks have passed, the load succeeds if and only if the
\* family of the resolved command equals the declared type (python and
\* python3, node and nodejs being the same, in any letter case); otherwise
\* it fails with the runtime-mismatch error.
C17_RuntimeCheckByFamily ==
  (/\ req.called /\ TheManifest.runtime # <<>>
   /\ loadErr.kind \notin {"unsupported", "interpreter-not-found"})
  => IF FamilyOfCommand(ResolvedAsked) = FamilyOfName(toLowerCase(TheManifest.runtime[1]))
     THEN tool.loaded
     ELSE ~tool.loaded /\ loadErr.kind = "runtime-mismatch"

(***************************************************************************)
(* Claims about the child's environment and directories.                   *)
(***************************************************************************)
\* The private directories as spawnOnce names them: join(work, 'home') and
\* join(work, 'tmp'), work being join(join(entry.cwd ?? '.', 'run'), name).
WorkNamed(i) ==
  (IF TheManifest.cwd = <<>> THEN <<".">> ELSE TheManifest.cwd) \o <<"run", work[i]>>

\* The base layer of the claim, with LANG whenever the parent has it.
BaseLayerLangIfSet(i) ==
  LET b == [PATH |-> Get(procEnv, "PATH"),
            HOME |-> WorkNamed(i) \o <<"home">>,
            TMPDIR |-> WorkNamed(i) \o <<"tmp">>]
  IN IF "LANG" \in DOMAIN procEnv THEN b @@ [LANG |-> procEnv["LANG"]] ELSE b

\* The base layer with LANG when the parent has a non-empty one.
BaseLayer(i) ==
  LET b == [PATH |-> Get(procEnv, "PATH"),
            HOME |-> WorkNamed(i) \o <<"home">>,
            TMPDIR |-> WorkNamed(i) \o <<"tmp">>]
  IN IF "LANG" \in DOMAIN procEnv /\ procEnv["LANG"] # <<>>
     THEN b @@ [LANG |-> procEnv["LANG"]] ELSE b

\* The child sees exactly the keys of the three layers, each with the value
\* of the last layer that defines it.
LastLayerWins(env, base) ==
  /\ DOMAIN env = DOMAIN base \cup DOMAIN TheManifest.env \cup DOMAIN req.options.env
  /\ \A k \in DOMAIN env :
       env[k] = IF k \in DOMAIN req.options.env THEN req.options.env[k]
                ELSE IF k \in DOMAIN TheManifest.env THEN TheManifest.env[k]
                ELSE base[k]

C19_RunDirUnderToolCwd ==
  \A i \in Invs : child[i] # "none" => call[i].work = call[i].cwd \o <<"run", work[i]>>

\* C19, where it does hold: an entrypoint cwd that is an absolute path.
C19_AbsoluteCwdCase ==
  \E i \in Invs :
    /\ child[i] # "none" /\ isAbsolute(TheManifest.cwd)
    /\ call[i].work = call[i].cwd \o <<"run", work[i]>>

\* No env layer of the manifest or of the caller defines variable k.
NotOverridden(k) == k \notin DOMAIN TheManifest.env \cup DOMAIN req.options.env

\* C20: HOME and TMPDIR as the child resolves them from its own working
\* directory are the home and tmp subdirectories this invocation made in its
\* run directory, unless an env layer overrides them.
C20_HomeAndTmpAreTheOnesMade ==
  \A i \in Invs :
    child[i] # "none"
    => /\ NotOverridden("HOME")
          => resolve(call[i].cwd, call[i].env["HOME"]) = call[i].work \o <<"home">>
       /\ NotOverridden("TMPDIR")
          => resolve(call[i].cwd, call[i].env["TMPDIR"]) = call[i].work \o <<"tmp">>

(***************************************************************************)
(* Claims about the form of the specifier.                                 *)
(***************************************************************************)
\* The '@' characters of the specifier asked for that come after its first
\* character (a leading '@' marks the scope, not the version).
MarkersAsked == {k \in 2..Len(req.spec) : req.spec[k] = "@"}

\* The token is an exact version, a range, or "latest" in any letter case.
TokenValid(t) ==
  semverValid(t) \/ semverValidRange(t) \/ toLowerCase(t) = LATEST

\* C21: a specifier whose version token is neither an exact version, nor a
\* range, nor "latest" makes load fail with the version/range error naming
\* the token, whatever version directories the search roots hold.
C21_InvalidTokenRejected ==
  (req.called /\ MarkersAsked # {} /\ Len(req.spec) \notin MarkersAsked
     /\ ~TokenValid(TokenAsked))
  => /\ ~tool.loaded
     /\ loadErr.kind = "invalid-range"
     /\ loadErr.what = TokenAsked

\* C21 witness: "@zk/x@foo" asked while a directory named foo holds a
\* manifest under the name directory of a search root.
C21_Witness ==
  /\ req.called /\ req.spec = SCOPED_X \o AT \o FOO
  /\ \E k \in 1..Len(RootsAsked) : hasManifest(RootsAsked[k], SCOPED_X, FOO)
  /\ loadErr.kind = "invalid-range" /\ loadErr.what = FOO

\* C22: every specifier that does not have exactly one '@' version marker
\* after its first character, or has it as its last character, is rejected
\* with the invalid-specifier error, and no search root decides the outcome.
C22_IllFormedRejected ==
  (req.called /\ (Cardinality(MarkersAsked) # 1 \/ Len(req.spec) \in MarkersAsked))
  => /\ ~tool.loaded
     /\ loadErr.kind = "invalid-spec"
     /\ loadErr.what = req.spec

\* C22 cases the code does reject: no marker, a marker only as the first
\* character, or a marker as the last character.
C22_EdgeMarkerRejected ==
  /\ req.called /\ req.spec \in {PLAIN_X, SCOPED_X, SCOPED_X \o AT}
  /\ fs # {}
  /\ ~tool.loaded /\ loadErr.kind = "invalid-spec"

(***************************************************************************)
(* Claims about the command and the arguments spawned.                     *)
(***************************************************************************)
\* The family the override variable is chosen by: that of the manifest
\* command's base name, else the runtime.type hint node or python.
OverrideFamily ==
  IF FamilyOfCommand(TheManifest.command) # "" THEN FamilyOfCommand(TheManifest.command)
  ELSE IF TheManifest.runtime = <<NODE>> THEN "node"
  ELSE IF TheManifest.runtime = <<PYTHON>> THEN "python"
  ELSE ""

\* The override variable of a family; "" for no family.
OverrideVariable(family) ==
  IF family = "node" THEN "AGENTPM_NODE"
  ELSE IF family = "python" THEN "AGENTPM_PYTHON"
  ELSE ""

\* Variable k is set, possibly to the empty string, in some layer.
IsSet(k) == k \in DOMAIN req.options.env \cup DOMAIN TheManifest.env \cup DOMAIN procEnv

\* The command used if a variable that is set replaces the manifest command.
CommandIfSet ==
  IF OverrideVariable(OverrideFamily) # "" /\ IsSet(OverrideVariable(OverrideFamily))
  THEN Layered(OverrideVariable(OverrideFamily))
  ELSE TheManifest.command

\* C23 as stated: the override value of the family's variable, when the
\* variable is set in the layered environment, is the command load checks
\* and returns, and the command of every spawn.
C23_SetReplacesCommand ==
  req.called
  => /\ tool.loaded => tool.command = CommandIfSet
     /\ ~tool.loaded => loadErr.what = CommandIfSet
     /\ \A i \in Invs : call[i].spawns > 0 => call[i].command = CommandIfSet

\* The command used if a variable set to a non-empty value replaces the
\* manifest command.
CommandExpected ==
  IF OverrideVariable(OverrideFamily) # "" /\ Layered(OverrideVariable(OverrideFamily)) # <<>>
  THEN Layered(OverrideVariable(OverrideFamily))
  ELSE TheManifest.command

\* C23: the override value of the family's variable, when set to a
\* non-empty value in the layered environment, replaces the manifest command
\* for the whitelist, availability and runtime checks and for every spawn;
\* when it is unset or empty the manifest command is used, and the other
\* family's variable never is.
C23_OverrideReplacesCommand ==
  req.called
  => /\ tool.loaded => tool.command = CommandExpected
     /\ ~tool.loaded
          => /\ loadErr.kind \in {"unsupported", "interpreter-not-found", "runtime-mismatch"}
             /\ loadErr.what = CommandExpected
     /\ ~Whitelisted(CommandExpected) => RejectedNaming(CommandExpected)
     /\ (Whitelisted(CommandExpected) /\ CommandExpected \notin executables)
          => ~tool.loaded /\ loadErr.kind = "interpreter-not-found"
     /\ \A i \in Invs : call[i].spawns > 0 => call[i].command = CommandExpected

\* C23 witness: a python manifest command, AGENTPM_NODE set in the process
\* environment and AGENTPM_PYTHON set by the caller: the child spawned is
\* the AGENTPM_PYTHON value.
C23_Witness ==
  /\ TheManifest.command = PYTHON
  /\ "AGENTPM_NODE" \in DOMAIN procEnv /\ procEnv["AGENTPM_NODE"] = USR_BIN_NODE
  /\ Layered("AGENTPM_PYTHON") = PYTHON311
  /\ \E i \in Invs : call[i].spawns > 0 /\ call[i].command = PYTHON311

\* C23 witness of the unset case: a node manifest command with only
\* AGENTPM_PYTHON set is spawned unchanged.
C23_UnsetWitness ==
  /\ TheManifest.command = NODE
  /\ Layered("AGENTPM_NODE") = <<>> /\ Layered("AGENTPM_PYTHON") = PYTHON311
  /\ \E i \in Invs : call[i].spawns > 0 /\ call[i].command = NODE

C24_SkipWitness ==
  /\ req.called /\ TokenAsked = CARET_1
  /\ tool.loaded /\ tool.root.ver = V100
  /\ tool.root.base # RootsAsked[1]
  /\ \E e \in fs : /\ e.base = RootsAsked[1] /\ e.dir \in SpellingsOf(NameSearched)
                   /\ e.ver = V200 /\ e.man.present

(***************************************************************************)
(* Claims about output that holds no result.                               *)
(***************************************************************************)
\* Text t holds no '{', or what follows its last '{' is not valid JSON.
ExtractionFails(t) ==
  \/ \A k \in 1..Len(t) : t[k].c # "{"
  \/ ~extractLastJsonObject(t).ok

C25_BraceWitness ==
  \E i \in Invs :
    /\ child[i] = "closed" /\ exitCode[i] = Code(0)
    /\ timer[i] # "fired" /\ ~Breached(i)
    /\ \E k \in 1..Len(out[i]) : out[i][k].c = "{"
    /\ TLen(err[i]) > 4000
    /\ promise[i].e.kind = "format" /\ TLen(promise[i].e.tail) = 4000

\* C26: for a spawned command of the node family the arguments passed to
\* the child are the manifest's arguments, with --max-old-space-size=256
\* put in front of them when none of them starts with --max-old-space-size;
\* for a command of the python family they are the manifest's arguments.
C26_NodeGetsHeapLimit ==
  \A i \in Invs :
    call[i].spawns > 0
    => LET args == tool.entry.args
           present == \E k \in 1..Len(args) : startsWith(args[k], MAX_OLD_SPACE_SIZE)
       IN /\ FamilyOfCommand(call[i].command) \in {"node", "python"}
          /\ FamilyOfCommand(call[i].command) = "node"
               => /\ \E k \in 1..Len(call[i].args) :
                       startsWith(call[i].args[k], MAX_OLD_SPACE_SIZE)
                  /\ present => call[i].args = args
                  /\ ~present => call[i].args = <<HARDENING_FLAG>> \o args
          /\ FamilyOfCommand(call[i].command) = "python" => call[i].args = args

\* C26 witness: a node command whose manifest arguments hold no such flag
\* is spawned with the flag first, then the manifest's arguments.
C26_Witness ==
  \E i \in Invs :
    /\ call[i].spawns > 0 /\ call[i].command = NODE_EXE
    /\ tool.entry.args = <<T_JS>>
    /\ call[i].args = <<HARDENING_FLAG, T_JS>>

\* C26 witnesses of the other cases: flag already present, python.
C26_PresentWitness ==
  \E i \in Invs :
    /\ call[i].spawns > 0 /\ call[i].command = USR_BIN_NODE
    /\ call[i].args = <<FLAG_512, T_JS>>

C26_PythonWitness ==
  \E i \in Invs :
    /\ call[i].spawns > 0 /\ call[i].command = PYTHON311
    /\ call[i].args = <<T_JS>>

\* C29: the command of every spawn is the command load resolved and
\* checked (the override value when one was substituted, whitelisted and
\* available), for the first call and for later ones, whatever happens to
\* the process environment and to the manifest file after load.
C29_SpawnsTheCheckedCommand ==
  /\ [](\A i \in Invs :
          call[i].spawns > 0
          => /\ call[i].command = tool.command
             /\ Whitelisted(tool.command) /\ tool.command \in executables)
  /\ [][(~req.called /\ tool'.loaded) => tool'.command = CommandExpected']_vars
  /\ [][tool.loaded => tool' = tool]_vars
  /\ [][\A i \in Invs : (call[i].spawns = 0 /\ call'[i].spawns > 0)
                          => call'[i].command = tool.command]_vars

\* C29 witness: the override /usr/bin/node was substituted at load; since
\* then AGENTPM_NODE has been changed and the manifest rewritten to a python
\* command, and both calls have spawned /usr/bin/node.
C29_Witness ==
  /\ tool.loaded /\ tool.command = USR_BIN_NODE
  /\ procEnv["AGENTPM_NODE"] = PYTHON
  /\ TheManifest.command = PYTHON
  /\ \A i \in Invs : call[i].spawns > 0 /\ call[i].command = USR_BIN_NODE

(***************************************************************************)
(* Claims about what the child sees of its parent.                         *)
(***************************************************************************)
\* The variables the manifest env or the caller env of the loaded tool
\* declares.
Declared == DOMAIN tool.entry.env \cup DOMAIN tool.env

C30_DeclaredWitness ==
  \E i \in Invs :
    /\ call[i].spawns > 0 /\ tool.entry.env = SECRET_M
    /\ "SECRET" \in DOMAIN procEnv /\ procEnv["SECRET"] = <<"s">>
    /\ call[i].env["SECRET"] = <<"m">>

(***************************************************************************)
(* Claims about how an invocation settles.                                 *)
(***************************************************************************)
\* The write of invocation i's payload has failed: the child was spawned
\* and got no input.
WriteFailed(i) == child[i] \notin {"none", "spawnfail", "errored"} /\ stdin[i] = <<>>

\* C27: an error while writing the payload to the child's input is
\* swallowed: it does not reach the calling process as an uncaught
\* exception, and it does not settle the invocation.
C27_WriteErrorSwallowed ==
  \A i \in Invs :
    WriteFailed(i)
    => /\ uncaught = {}
       /\ Settled(i) => child[i] = "closed" \/ timer[i] = "fired" \/ Breached(i)

\* C27 witness of the part that holds: the write has failed, the child is
\* still running and the promise is still pending.
C27_NotSettledByWriteError ==
  \E i \in Invs : WriteFailed(i) /\ child[i] = "running" /\ promise[i].st = "pending"

\* The step is the deadline expiring, the 'error' of a failed spawn, the
\* 'close', or a data event that takes the output past the limit.
Expires(i) == timer[i] = "armed" /\ timer'[i] = "fired"
SpawnFails(i) == child[i] = "spawnfail" /\ child'[i] = "errored"
Closes(i) == child[i] # "closed" /\ child'[i] = "closed"
Breaches(i) == nData'[i] # nData[i] /\ Breached(i)'

\* A step that settles the pending promise of invocation i delivers the
\* outcome of the event the step is; each of the four events settles it.
FirstEventSettles(i) ==
  promise[i].st = "pending"
  => /\ (Expires(i) \/ SpawnFails(i) \/ Closes(i) \/ Breaches(i)) <=> Settled(i)'
     /\ Expires(i) => promise'[i].e = TimeoutError(tool.timeoutMs)
     /\ SpawnFails(i) => promise'[i].e.kind = "spawn"
     /\ Breaches(i) => promise'[i].e.kind = "limit"
     /\ Closes(i) => \/ promise'[i].st = "resolved"
                      \/ promise'[i].e.kind \in {"exit", "format"}

\* C28: the promise of an invocation settles, once: with the outcome of
\* the first of deadline expiry, output-limit breach, spawn error and close;
\* no later event changes it; and from the close on the timer is not armed
\* and no kill signal is sent.
C28_SettlesOnceByFirstEvent ==
  /\ \A i \in Invs : (promise[i].st = "pending") ~> Settled(i)
  /\ [][\A i \in Invs : FirstEventSettles(i)]_vars
  /\ [][\A i \in Invs : Settled(i) => promise'[i] = promise[i]]_vars
  /\ [](\A i \in Invs : child[i] = "closed" => timer[i] # "armed")
  /\ [][\A i \in Invs : child[i] = "closed"
                          => /\ timer'[i] = timer[i]
                             /\ sigGroup'[i] = sigGroup[i]
                             /\ sigChild'[i] = sigChild[i]]_vars

\* C28 witness: the deadline expired first; the close that followed the
\* kill carried no exit code, and the timeout error is still the outcome.
C28_Witness ==
  \E i \in Invs :
    /\ child[i] = "closed" /\ timer[i] = "fired" /\ exitCode[i] = NullCode
    /\ promise[i].st = "rejected" /\ promise[i].e.kind = "timeout"

====
